---- MODULE Spec2Model ----
(***************************************************************************)
(* Canvas interaction engine of the whiteboard editor (src/App.tsx, the    *)
(* multi-selection variant with the pen tool).  Every React state cell of  *)
(* App is a variable, every event handler is one action.  A handler runs   *)
(* to completion on the state of the latest render, so one handler call is *)
(* one atomic step.                                                        *)
(*                                                                         *)
(* JavaScript numbers are modelled as exact rationals [n, d] with d > 0,   *)
(* extended with the IEEE special values the arithmetic of the handlers    *)
(* can produce: NaN, +Infinity, -Infinity.  `undefined` is a fourth        *)
(* special value.  Rounding error of binary floating point is not          *)
(* modelled.  No divisor in the handlers can be a negative zero (widths,   *)
(* heights and the scale are results of Math.abs, Math.max or literals),   *)
(* so the sign of zero is not modelled either.                             *)
(***************************************************************************)
EXTENDS Integers, Sequences, FiniteSets, TLC

\* ------------------------------------------------------------------------
\* Numbers
\* ------------------------------------------------------------------------

RECURSIVE Gcd(_, _)
Gcd(a, b) == IF b = 0 THEN a ELSE Gcd(b, a % b)

AbsInt(i) == IF i < 0 THEN -i ELSE i

\* The rational n/d in lowest terms with a positive denominator (d # 0).
Rat(n, d) ==
    LET g == Gcd(AbsInt(n), AbsInt(d))
        s == IF d < 0 THEN -1 ELSE 1
    IN  [n |-> s * (n \div g), d |-> s * (d \div g)]

Q(i) == [n |-> i, d |-> 1]

NaN    == [n |-> 0, d |-> 0]
PosInf == [n |-> 1, d |-> 0]
NegInf == [n |-> -1, d |-> 0]
Undef  == [n |-> 0, d |-> -1]

IsUndef(a)  == a.d = -1
IsNaN(a)    == a.d = 0 /\ a.n = 0
IsInf(a)    == a.d = 0 /\ a.n # 0
IsFinite(a) == a.d > 0
IsZero(a)   == a.d > 0 /\ a.n = 0
Sign(a)     == IF a.n > 0 THEN 1 ELSE IF a.n < 0 THEN -1 ELSE 0

\* Arithmetic on numbers.  An undefined operand converts to NaN, as in JS.
Bad(a) == IsNaN(a) \/ IsUndef(a)

Neg(a) == IF Bad(a) THEN NaN ELSE [n |-> -a.n, d |-> a.d]

Add(a, b) ==
    IF Bad(a) \/ Bad(b) THEN NaN
    ELSE IF IsInf(a) THEN (IF IsInf(b) /\ b.n # a.n THEN NaN ELSE a)
    ELSE IF IsInf(b) THEN b
    ELSE Rat(a.n * b.d + b.n * a.d, a.d * b.d)

Sub(a, b) == Add(a, Neg(b))

Mul(a, b) ==
    IF Bad(a) \/ Bad(b) THEN NaN
    ELSE IF IsInf(a) \/ IsInf(b)
         THEN (IF IsZero(a) \/ IsZero(b) THEN NaN
               ELSE IF Sign(a) * Sign(b) > 0 THEN PosInf ELSE NegInf)
    ELSE Rat(a.n * b.n, a.d * b.d)

Div(a, b) ==
    IF Bad(a) \/ Bad(b) THEN NaN
    ELSE IF IsInf(a)
         THEN (IF IsInf(b) THEN NaN
               ELSE IF Sign(a) * (IF Sign(b) < 0 THEN -1 ELSE 1) > 0
                    THEN PosInf ELSE NegInf)
    ELSE IF IsInf(b) THEN Q(0)
    ELSE IF IsZero(b)
         THEN (IF IsZero(a) THEN NaN
               ELSE IF Sign(a) > 0 THEN PosInf ELSE NegInf)
    ELSE Rat(a.n * b.d, a.d * b.n)

\* a < b, a <= b as JS evaluates them: false when an operand is NaN.
Lt(a, b) ==
    IF Bad(a) \/ Bad(b) THEN FALSE
    ELSE IF IsInf(a) THEN a.n < 0 /\ b # a
    ELSE IF IsInf(b) THEN b.n > 0
    ELSE a.n * b.d < b.n * a.d

Le(a, b) == ~Bad(a) /\ ~Bad(b) /\ (a = b \/ Lt(a, b))
Gt(a, b) == Lt(b, a)
Ge(a, b) == Le(b, a)

\* Math.max, Math.min, Math.abs, Math.round (round half up), Math.sqrt is
\* never needed: distances are compared through their squares.
Max(a, b) == IF Bad(a) \/ Bad(b) THEN NaN ELSE IF Lt(a, b) THEN b ELSE a
Min(a, b) == IF Bad(a) \/ Bad(b) THEN NaN ELSE IF Lt(b, a) THEN b ELSE a
Abs(a)    == IF Bad(a) THEN NaN ELSE [n |-> AbsInt(a.n), d |-> a.d]

FloorDiv(n, d) == IF n >= 0 THEN n \div d ELSE -((-n + d - 1) \div d)

Round(a) ==
    IF Bad(a) THEN NaN
    ELSE IF IsInf(a) THEN a
    ELSE Q(FloorDiv(2 * a.n + a.d, 2 * a.d))

\* JS truthiness of a number-or-undefined value.
Truthy(a) == ~IsUndef(a) /\ ~IsNaN(a) /\ ~IsZero(a)

\* a || b for numbers.
OrElse(a, b) == IF Truthy(a) THEN a ELSE b

\* ------------------------------------------------------------------------
\* Bounds of the model
\* ------------------------------------------------------------------------

\* Screen points (clientX, clientY) pointer events may land on: the first
\* MaxPts of ScreenPoints.
MaxPts == 2
\* Presses (pointer-downs) in one behaviour of Spec.
MaxPresses == 1
\* Presses in one behaviour of the two-gesture specifications.
MaxGestures == 2
\* Presses in one behaviour of the pen-path specification.
MaxPathPresses == 4
\* Screen points of the pen-path specification: the first MaxPathPts.
MaxPathPts == 2
\* Number of distinct values Math.random().toString(36).substr(2, 9) takes
\* in the id specification.
MaxIds == 2
\* Zooming and wheel panning stop once a denominator of the view exceeds
\* MaxViewDen or an offset lies more than MaxPan px from the origin.
MaxViewDen == 5
MaxPan == 20
\* Largest denominator of the scale from which a pan study zooms further.
MaxPanDen == 10
\* Bits of the significand of the binary floating-point format in which the
\* coordinate round trip is computed (53 in a JS number).
MantissaBits == 8
\* FileReader loads in flight at a time.
MaxUploads == 1
\* handleAIGenerate calls waiting for suggestions at a time.
MaxGenerations == 1
\* Screen points of the pen-handle specification: the first MaxHandlePts.
MaxHandlePts == 3
\* Nodes the engine may create in one behaviour (generateId calls).
MaxCreated == 2
\* Anchors the pen buffer may hold.
MaxPen == 3
\* Points a freehand stroke may hold.
MaxStroke == 3

ScreenPoints == <<<<0, 0>>, <<20, 10>>, <<10, 0>>, <<30, 20>>, <<0, 20>>>>
Take(k) == {ScreenPoints[i] : i \in 1..(IF k < Len(ScreenPoints) THEN k ELSE Len(ScreenPoints))}
Pts == Take(MaxPts)

\* ------------------------------------------------------------------------
\* Data model (src/types.ts, and the fields App.tsx adds to it)
\* ------------------------------------------------------------------------

Pt(x, y) == [x |-> x, y |-> y]

\* A pen anchor: a point with the optional handle offsets lcx/lcy, rcx/rcy.
PenPt(x, y, lcx, lcy, rcx, rcy) ==
    [x |-> x, y |-> y, lcx |-> lcx, lcy |-> lcy, rcx |-> rcx, rcy |-> rcy]

ShapeTools == {"rectangle", "circle", "triangle", "star", "diamond", "hexagon",
               "pentagon"}
CreationTools == ShapeTools \cup {"arrow", "line", "pencil", "text"}
Tools == CreationTools \cup {"select", "hand", "pen"}

\* A CanvasNode.  Optional numeric fields hold Undef when absent; the optional
\* flag aspectRatioLocked is only ever read for its truthiness, so absent and
\* false are both FALSE; absent points are the empty sequence.
MkNode(id, type, x, y, width, height, fillColor, fontSize, locked, points) ==
    [id |-> id, type |-> type, x |-> x, y |-> y, width |-> width,
     height |-> height, content |-> "", fillColor |-> fillColor,
     fontSize |-> fontSize, aspectRatioLocked |-> locked, points |-> points]

\* ------------------------------------------------------------------------
\* State
\* ------------------------------------------------------------------------

VARIABLES
    nodes,               \* CanvasNode[]: the store, array order = z-order
    view,                \* ViewState {scale, offsetX, offsetY}
    activeTool,
    selectedNodeIds,     \* string[]: the selection, in order of addition
    isDragging, isPanning, isDrawing,
    resizeState,         \* <<>> for null, else <<ResizeState>>
    isBoxSelecting, boxStart,
    selectionBox,        \* <<>> for null, else <<{x, y, width, height}>>
    dragStart, drawingStart,
    penPoints,           \* Point[] of the path being authored (world units)
    currentPointerPos,   \* <<>> for null, else <<Point>>
    isPenDragging,
    activePenPointIndex, \* <<>> for null, else <<0-based index>>
    \* -- environment and history, not React state --
    pressed,             \* the pointer's button is held since a press
    pressesLeft,         \* presses the pointer may still make
    created,             \* number of generateId calls so far
    lastEvent,           \* the handler that ran last, with its modifier
    gesture,             \* what the last press saw and did
    \* -- callbacks in flight --
    uploads,             \* FileReader loads pending, each with the selection
                         \* its onUpdateNode closure holds
    isGenerating,        \* the flag of the single-selection variant
    generations          \* handleAIGenerate calls waiting for suggestions,
                         \* each with the node and the store of its render

progVars == <<nodes, view, activeTool, selectedNodeIds, isDragging, isPanning,
              isDrawing, resizeState, isBoxSelecting, boxStart, selectionBox,
              dragStart, drawingStart, penPoints, currentPointerPos,
              isPenDragging, activePenPointIndex>>
vars == <<progVars, pressed, pressesLeft, created, lastEvent, gesture,
          uploads, isGenerating, generations>>

Range(s) == {s[i] : i \in DOMAIN s}

\* Array.prototype.map / filter on sequences.
Map(s, F(_)) == [i \in DOMAIN s |-> F(s[i])]

Filter(s, P(_)) == SelectSeq(s, P)

Includes(s, v) == v \in Range(s)

\* A faulty union: the array is kept as it is, repetitions included.
DedupKeepingAll(s) == s

\* Array.from(new Set(s)): first occurrences, in order.
RECURSIVE Dedup(_)
Dedup(s) ==
    IF s = <<>> THEN <<>>
    ELSE LET init == Dedup(SubSeq(s, 1, Len(s) - 1))
             last == s[Len(s)]
         IN  IF Includes(init, last) THEN init ELSE Append(init, last)

\* nodes.find(n => n.id === id): <<>> when there is none.
Find(id) == Filter(nodes, LAMBDA n : n.id = id)

\* generateId(): Math.random().toString(36); taken to return an id no node
\* has had before: the k-th call returns 100 + k, the nodes of INITIAL_NODES
\* have ids below 100.
generateId == 100 + created
EngineCreated(n) == n.id >= 100

\* The values generateId can return: it draws a random string and looks at
\* neither the store nor its earlier results.
generateIdOutcomes == {100 + k : k \in 0 .. MaxIds - 1}

\* A faulty deletion: only the node selected first is removed.
DeleteSelectedFirst(store, ids) ==
    SelectSeq(store, LAMBDA n : n.id # ids[1])

\* prev.filter(node => !selectedNodeIds.includes(node.id))
DeleteSelected(store, ids) ==
    SelectSeq(store, LAMBDA n : ~Includes(ids, n.id))

\* A faulty insertion: the new node goes under all others.
AddNodeFirst(store, n) == <<n>> \o store

\* [...prev, newNode]
AddNode(store, n) == Append(store, n)

\* An entry of the event history: the handler that ran, its modifier (shift
\* for pointer events, the text-field target for keys) and the branch it took.
Ev(type, flag, did) == [type |-> type, flag |-> flag, did |-> did]

\* ------------------------------------------------------------------------
\* Pure functions of App.tsx
\* ------------------------------------------------------------------------

screenToWorld(screenX, screenY) ==
    Pt(Div(Sub(screenX, view.offsetX), view.scale),
       Div(Sub(screenY, view.offsetY), view.scale))

worldToScreen(worldX, worldY) ==
    Pt(Add(Mul(worldX, view.scale), view.offsetX),
       Add(Mul(worldY, view.scale), view.offsetY))

\* Binary floating point.  A JS number is an IEEE double: every arithmetic
\* operation returns the exact result rounded to the nearest number with a
\* significand of 53 bits, ties to even.  Fl rounds to MantissaBits bits in
\* the same way; the range of the exponent is not limited.
RECURSIVE Pow2(_)
Pow2(k) == IF k = 0 THEN 1 ELSE 2 * Pow2(k - 1)

\* The exponent e with 2^(MantissaBits-1) <= a / 2^e < 2^MantissaBits, for
\* a finite a > 0, counted from e.
RECURSIVE FlExponent(_, _)
FlExponent(a, e) ==
    IF Lt(a, Q(Pow2(MantissaBits - 1))) THEN FlExponent(Mul(a, Q(2)), e - 1)
    ELSE IF Ge(a, Q(Pow2(MantissaBits))) THEN FlExponent(Div(a, Q(2)), e + 1)
    ELSE e

\* 2^e as a number.
TwoTo(e) == IF e >= 0 THEN Q(Pow2(e)) ELSE Rat(1, Pow2(-e))

\* The integer nearest to a finite a >= 0, ties to even.
RoundHalfEven(a) ==
    LET f == a.n \div a.d
        r == 2 * (a.n - f * a.d)
    IN  IF r < a.d THEN f
        ELSE IF r > a.d THEN f + 1
        ELSE IF f % 2 = 0 THEN f ELSE f + 1

Fl(a) ==
    IF ~IsFinite(a) \/ IsZero(a) THEN a
    ELSE LET m == Abs(a)
             e == FlExponent(m, 0)
             r == Mul(Q(RoundHalfEven(Div(m, TwoTo(e)))), TwoTo(e))
         IN  IF a.n < 0 THEN Neg(r) ELSE r

\* screenToWorld as the doubles compute it.
screenToWorldFl(screenX, screenY) ==
    Pt(Fl(Div(Fl(Sub(screenX, Fl(view.offsetX))), Fl(view.scale))),
       Fl(Div(Fl(Sub(screenY, Fl(view.offsetY))), Fl(view.scale))))

\* A world-to-screen mapping that forgets the pan offset.
worldToScreenFlNoOffset(worldX, worldY) ==
    Pt(Fl(Mul(worldX, Fl(view.scale))), Fl(Mul(worldY, Fl(view.scale))))

\* worldToScreen as the doubles compute it.
worldToScreenFl(worldX, worldY) ==
    Pt(Fl(Add(Fl(Mul(worldX, Fl(view.scale))), Fl(view.offsetX))),
       Fl(Add(Fl(Mul(worldY, Fl(view.scale))), Fl(view.offsetY))))

\* Math.min(...xs), Math.max(...xs) over a non-empty sequence of numbers.
RECURSIVE MinOf(_)
MinOf(s) == IF Len(s) = 1 THEN s[1] ELSE Min(s[1], MinOf(Tail(s)))

RECURSIVE MaxOf(_)
MaxOf(s) == IF Len(s) = 1 THEN s[1] ELSE Max(s[1], MaxOf(Tail(s)))

\* p.lcx ? p.lcx / width : undefined
ScaleHandle(c, size) == IF Truthy(c) THEN Div(c, size) ELSE Undef

\* A faulty finishPenPath: the anchors are scaled but not moved to the box.
PenPathNodeUnshifted(id, pts) ==
    LET xs == [i \in DOMAIN pts |-> pts[i].x]
        ys == [i \in DOMAIN pts |-> pts[i].y]
        width == Max(Q(1), Sub(MaxOf(xs), MinOf(xs)))
        height == Max(Q(1), Sub(MaxOf(ys), MinOf(ys)))
    IN  MkNode(id, "path", MinOf(xs), MinOf(ys), width, height, "#dbeafe",
               Undef, FALSE,
               [i \in DOMAIN pts |->
                   PenPt(Div(pts[i].x, width), Div(pts[i].y, height),
                         ScaleHandle(pts[i].lcx, width),
                         ScaleHandle(pts[i].lcy, height),
                         ScaleHandle(pts[i].rcx, width),
                         ScaleHandle(pts[i].rcy, height))])

\* The node finishPenPath emits for a buffer of at least 2 anchors.
PenPathNode(id, pts) ==
    LET xs == [i \in DOMAIN pts |-> pts[i].x]
        ys == [i \in DOMAIN pts |-> pts[i].y]
        minX == MinOf(xs)
        maxX == MaxOf(xs)
        minY == MinOf(ys)
        maxY == MaxOf(ys)
        width == Max(Q(1), Sub(maxX, minX))
        height == Max(Q(1), Sub(maxY, minY))
        norm(p) == PenPt(Div(Sub(p.x, minX), width), Div(Sub(p.y, minY), height),
                         ScaleHandle(p.lcx, width), ScaleHandle(p.lcy, height),
                         ScaleHandle(p.rcx, width), ScaleHandle(p.rcy, height))
    IN  MkNode(id, "path", minX, minY, width, height, "#dbeafe", Undef, FALSE,
               [i \in DOMAIN pts |-> norm(pts[i])])

\* The node handlePointerDown creates for a creation tool at worldPos.
NewNode(id, tool, worldPos) ==
    IF tool = "text"
    THEN MkNode(id, "text", worldPos.x, Sub(worldPos.y, Q(30)), Q(200), Q(60),
                "#000000", Q(24), FALSE, <<>>)
    ELSE IF tool = "pencil"
    THEN MkNode(id, "draw", worldPos.x, worldPos.y, Q(0), Q(0), "", Undef,
                FALSE, <<Pt(Q(0), Q(0))>>)
    ELSE IF tool \in {"line", "arrow"}
    THEN MkNode(id, tool, worldPos.x, worldPos.y, Q(0), Q(0), "", Undef,
                FALSE, <<Pt(Q(0), Q(0)), Pt(Q(0), Q(0))>>)
    ELSE MkNode(id, tool, worldPos.x, worldPos.y, Q(0), Q(0), "#dbeafe", Undef,
                FALSE, <<>>)

\* handle.includes('e') and so on, for the handle labels Node.tsx renders.
Handles == {"n", "s", "e", "w", "ne", "nw", "se", "sw"}
HasE(h) == h \in {"e", "ne", "se"}
HasW(h) == h \in {"w", "nw", "sw"}
HasS(h) == h \in {"s", "se", "sw"}
HasN(h) == h \in {"n", "ne", "nw"}
IsCorner(h) == h \in {"ne", "nw", "se", "sw"}

\* The handles Node.tsx renders on a selected node of the given kind.
HandlesOf(type) ==
    IF type = "draw" \/ type \in {"line", "arrow"} THEN {}
    ELSE IF type = "image" THEN {"se"}
    ELSE IF type = "text" THEN {"nw", "ne", "sw", "se", "e", "w"}
    ELSE Handles

\* The ResizeState handleResizeStart captures for a node.
MkResizeState(node, handle, startPoint) ==
    [isResizing |-> TRUE, nodeId |-> node.id, handle |-> handle,
     startPoint |-> startPoint,
     startDims |-> [width |-> node.width, height |-> node.height,
                    x |-> node.x, y |-> node.y,
                    fontSize |-> OrElse(node.fontSize, Q(16))]]

\* The body of the map callback of a resizing pointer-move, for the node
\* whose id is rs.nodeId.
ResizeNode(node, rs, worldPos) ==
    LET dx == Sub(worldPos.x, rs.startPoint.x)
        dy == Sub(worldPos.y, rs.startPoint.y)
        sd == rs.startDims
        h  == rs.handle
        \* Determine dimensions based on handle
        w0 == IF HasW(h) THEN Sub(sd.width, dx)
              ELSE IF HasE(h) THEN Add(sd.width, dx) ELSE sd.width
        x0 == IF HasW(h) THEN Add(sd.x, dx) ELSE sd.x
        h0 == IF HasN(h) THEN Sub(sd.height, dy)
              ELSE IF HasS(h) THEN Add(sd.height, dy) ELSE sd.height
        y0 == IF HasN(h) THEN Add(sd.y, dy) ELSE sd.y
        \* Apply Aspect Ratio Lock for Shapes/Images
        lock  == node.aspectRatioLocked \/ node.type = "image"
        ratio == Div(sd.width, sd.height)
        horiz == HasE(h) \/ HasW(h)
        h1 == IF lock /\ horiz THEN Div(w0, ratio) ELSE h0
        y1 == IF lock /\ horiz /\ HasN(h)
              THEN Add(sd.y, Sub(sd.height, h1)) ELSE y0
        w1 == IF lock /\ ~horiz THEN Mul(h0, ratio) ELSE w0
        \* Special logic for Text Scaling
        scale  == node.type = "text" /\ IsCorner(h)
        tratio == Div(w1, sd.width)
        fs == IF scale THEN Max(Q(8), Mul(sd.fontSize, tratio)) ELSE sd.fontSize
        h2 == IF scale THEN Mul(sd.height, tratio) ELSE h1
    IN  [node EXCEPT !.x = x0, !.y = y1,
                     !.width = Max(Q(10), w1),
                     !.height = Max(Q(10), h2),
                     !.fontSize = Round(fs)]

\* A faulty drawing move: the end of a line is stored in world coordinates
\* instead of relative to the node.
DrawNodeAbsolute(node, worldPos, start) ==
    IF node.type \in {"line", "arrow"}
    THEN [node EXCEPT !.points = <<Pt(Q(0), Q(0)), worldPos>>]
    ELSE node

\* A faulty drawing move: a line collects a point per move, as a freehand
\* stroke does.
DrawNodeAccumulating(node, worldPos, start) ==
    [node EXCEPT !.points =
         Append(node.points,
                Pt(Sub(worldPos.x, node.x), Sub(worldPos.y, node.y)))]

\* A faulty drawing move: the shape keeps its corner at the press point and
\* takes the signed extent of the drag as its size.
DrawNodeAnchored(node, worldPos, start) ==
    IF node.type = "draw" \/ node.type \in {"line", "arrow"}
    THEN node
    ELSE [node EXCEPT !.x = start.x, !.y = start.y,
                      !.width = Sub(worldPos.x, start.x),
                      !.height = Sub(worldPos.y, start.y)]

\* The body of the map callback of a drawing pointer-move, for the node being
\* drawn.
DrawNode(node, worldPos, start) ==
    IF node.type = "draw"
    THEN LET newPoint == Pt(Sub(worldPos.x, node.x), Sub(worldPos.y, node.y))
         IN  [node EXCEPT !.width = Max(node.width, newPoint.x),
                          !.height = Max(node.height, newPoint.y),
                          !.points = Append(node.points, newPoint)]
    ELSE IF node.type \in {"line", "arrow"}
    THEN [node EXCEPT !.points =
              <<Pt(Q(0), Q(0)),
                Pt(Sub(worldPos.x, node.x), Sub(worldPos.y, node.y))>>]
    ELSE LET dx == Sub(worldPos.x, start.x)
             dy == Sub(worldPos.y, start.y)
         IN  [node EXCEPT !.x = IF Lt(dx, Q(0)) THEN worldPos.x ELSE start.x,
                          !.y = IF Lt(dy, Q(0)) THEN worldPos.y ELSE start.y,
                          !.width = Abs(dx),
                          !.height = Abs(dy)]

\* The selection rectangle of a box-selecting pointer-move.
BoxOf(start, worldPos) ==
    [x |-> Min(start.x, worldPos.x), y |-> Min(start.y, worldPos.y),
     width |-> Abs(Sub(worldPos.x, start.x)),
     height |-> Abs(Sub(worldPos.y, start.y))]

\* A faulty overlap test: touching edges count as overlap.
OverlapsInclusive(node, box) ==
    /\ Le(node.x, Add(box.x, box.width))
    /\ Ge(Add(node.x, node.width), box.x)
    /\ Le(node.y, Add(box.y, box.height))
    /\ Ge(Add(node.y, node.height), box.y)

\* The filter of handlePointerUp: the node's box overlaps the rectangle.
Overlaps(node, box) ==
    /\ Lt(node.x, Add(box.x, box.width))
    /\ Gt(Add(node.x, node.width), box.x)
    /\ Lt(node.y, Add(box.y, box.height))
    /\ Gt(Add(node.y, node.height), box.y)

BoxHits(box) ==
    LET hit == Filter(nodes, LAMBDA n : Overlaps(n, box))
    IN  [i \in DOMAIN hit |-> hit[i].id]

\* The selection handlePointerUp sets when a box selection ends.
BoxSelection(prev, selected, shiftKey) ==
    IF shiftKey THEN Dedup(prev \o selected) ELSE selected

\* ------------------------------------------------------------------------
\* History kept for stating the claims (no handler reads it)
\* ------------------------------------------------------------------------

\* What a press did: kind is the branch it took, tool the active tool it saw,
\* P the world point of the press, Q the world point of the last pointer-down
\* or pointer-move since, nodes0/sel0 the store and the selection just before
\* the press, clean whether only pointer events have run since the press.
\* The record is dropped when the pointer is released.
MkGesture(kind, tool, shiftKey, P, nodes0, sel0) ==
    [kind |-> kind, tool |-> tool, shift |-> shiftKey, P |-> P, Q |-> P,
     nodes0 |-> nodes0, sel0 |-> sel0, clean |-> TRUE]

NoGesture == MkGesture("none", "select", FALSE, Pt(Q(0), Q(0)), <<>>, <<>>)

Dirty == [gesture EXCEPT !.clean = FALSE]

\* ------------------------------------------------------------------------
\* Handlers
\* ------------------------------------------------------------------------

\* A faulty closing test: the distance is taken to the newest anchor.
NearStartOfLast(worldPos) ==
    LET start == penPoints[Len(penPoints)]
        ddx == Sub(worldPos.x, start.x)
        ddy == Sub(worldPos.y, start.y)
        threshold == Div(Q(10), view.scale)
    IN  Lt(Add(Mul(ddx, ddx), Mul(ddy, ddy)), Mul(threshold, threshold))

\* The closing test of the pen tool: the press is nearer to the first anchor
\* than 10 / view.scale.
NearStart(worldPos) ==
    LET start == penPoints[1]
        ddx == Sub(worldPos.x, start.x)
        ddy == Sub(worldPos.y, start.y)
        threshold == Div(Q(10), view.scale)
    IN  \* dist < threshold, both sides non-negative, compared squared
        Lt(Add(Mul(ddx, ddx), Mul(ddy, ddy)), Mul(threshold, threshold))

\* handlePointerDown: a press that reaches the canvas element.  button is
\* e.button, onCanvas is e.target === canvasRef.current, id is what
\* generateId returns if the press calls it.
PointerDownWithId(sx, sy, button, shiftKey, onCanvas, id) ==
    LET worldPos == screenToWorld(Q(sx), Q(sy))
        pan    == activeTool = "hand" \/ button = 1
        pen    == ~pan /\ activeTool = "pen"
        close  == pen /\ Len(penPoints) > 2 /\ NearStart(worldPos)
        add    == pen /\ ~close
        box    == ~pan /\ ~pen /\ activeTool = "select" /\ onCanvas
        create == ~pan /\ ~pen /\ ~box /\ activeTool \in CreationTools
        text   == create /\ activeTool = "text"
        kind   == IF pan THEN "pan" ELSE IF close THEN "penclose"
                  ELSE IF add THEN "pen" ELSE IF box THEN "box"
                  ELSE IF create THEN "create" ELSE "noop"
    IN  /\ ~pressed
        /\ pressesLeft > 0
        /\ (create \/ close) => created < MaxCreated
        /\ add => Len(penPoints) < MaxPen
        /\ isPanning' = (pan \/ isPanning)
        /\ dragStart' = IF pan THEN Pt(Q(sx), Q(sy)) ELSE dragStart
        /\ nodes' = IF close THEN AddNode(nodes, PenPathNode(id, penPoints))
                    ELSE IF create
                    THEN AddNode(nodes, NewNode(id, activeTool, worldPos))
                    ELSE nodes
        /\ selectedNodeIds' =
               IF close \/ create THEN <<id>>
               ELSE IF box /\ ~shiftKey THEN <<>>
               ELSE selectedNodeIds
        /\ penPoints' =
               IF close THEN <<>>
               ELSE IF add
               THEN Append(penPoints,
                           PenPt(worldPos.x, worldPos.y, Undef, Undef, Undef, Undef))
               ELSE penPoints
        /\ activePenPointIndex' =
               IF close THEN <<>>
               ELSE IF add THEN <<Len(penPoints)>>
               ELSE activePenPointIndex
        /\ isPenDragging' = (add \/ isPenDragging)
        /\ isBoxSelecting' = (box \/ isBoxSelecting)
        /\ boxStart' = IF box THEN worldPos ELSE boxStart
        /\ selectionBox' =
               IF box THEN <<[x |-> worldPos.x, y |-> worldPos.y,
                              width |-> Q(0), height |-> Q(0)]>>
               ELSE selectionBox
        /\ isDrawing' = IF create THEN ~text ELSE isDrawing
        /\ drawingStart' = IF create THEN worldPos ELSE drawingStart
        /\ activeTool' = IF text THEN "select" ELSE activeTool
        /\ created' = IF close \/ create THEN created + 1 ELSE created
        /\ pressed' = TRUE
        /\ pressesLeft' = pressesLeft - 1
        /\ UNCHANGED <<uploads, isGenerating, generations>>
        /\ lastEvent' = Ev("down", shiftKey, kind)
        /\ gesture' = MkGesture(kind, activeTool, shiftKey, worldPos, nodes,
                                selectedNodeIds)
        /\ UNCHANGED <<view, isDragging, resizeState, currentPointerPos>>

\* handlePointerDown when generateId returns an id no node has had.
PointerDown(sx, sy, button, shiftKey, onCanvas) ==
    PointerDownWithId(sx, sy, button, shiftKey, onCanvas, generateId)

\* handleResizeStart: a press on the resize handle `handle` of node nodeId.
\* Node.tsx renders the handles of a node only while it is selected.
ResizeStart(nodeId, handle, sx, sy) ==
    LET found == Find(nodeId)
    IN  /\ ~pressed
        /\ pressesLeft > 0
        /\ found # <<>>
        /\ Includes(selectedNodeIds, nodeId)
        /\ handle \in HandlesOf(found[1].type)
        /\ resizeState' =
               <<MkResizeState(found[1], handle, screenToWorld(Q(sx), Q(sy)))>>
        /\ pressed' = TRUE
        /\ pressesLeft' = pressesLeft - 1
        /\ UNCHANGED <<uploads, isGenerating, generations>>
        /\ lastEvent' = Ev("resizestart", FALSE, "resize")
        /\ gesture' = MkGesture("resize", activeTool, FALSE,
                                screenToWorld(Q(sx), Q(sy)), nodes,
                                selectedNodeIds)
        /\ UNCHANGED <<nodes, view, activeTool, selectedNodeIds, isDragging,
                       isPanning, isDrawing, isBoxSelecting, boxStart,
                       selectionBox, dragStart, drawingStart, penPoints,
                       currentPointerPos, isPenDragging, activePenPointIndex,
                       created>>

\* A faulty handle: the incoming handle copies the outgoing one instead of
\* mirroring it.
PenHandlePointCopied(anchor, worldPos) ==
    LET dx == Sub(worldPos.x, anchor.x)
        dy == Sub(worldPos.y, anchor.y)
    IN  [anchor EXCEPT !.rcx = dx, !.rcy = dy, !.lcx = dx, !.lcy = dy]

\* The anchor a handle-dragging pointer-move writes at the active index.
PenHandlePoint(anchor, worldPos) ==
    LET dx == Sub(worldPos.x, anchor.x)
        dy == Sub(worldPos.y, anchor.y)
    IN  [anchor EXCEPT !.rcx = dx, !.rcy = dy, !.lcx = Neg(dx), !.lcy = Neg(dy)]

\* A faulty drag: the node jumps to the pointer's offset from the drag start
\* instead of moving by it.
DragNodeSnap(node, worldPos, start) ==
    [node EXCEPT !.x = Sub(worldPos.x, start.x),
                 !.y = Sub(worldPos.y, start.y)]

\* The position a dragging pointer-move gives a selected node.
DragNode(node, worldPos, start) ==
    [node EXCEPT !.x = Add(node.x, Sub(worldPos.x, start.x)),
                 !.y = Add(node.y, Sub(worldPos.y, start.y))]

\* The single-selection variant, handleNodePointerDown: the grab offset, the
\* world position of the press relative to the node.
GrabOffset(node, worldPos) ==
    Pt(Sub(worldPos.x, node.x), Sub(worldPos.y, node.y))

\* The single-selection variant, the dragging branch of handlePointerMove:
\* the node goes to the pointer's world position minus the grab offset.
DragNodeSingle(node, worldPos, grab) ==
    [node EXCEPT !.x = Sub(worldPos.x, grab.x),
                 !.y = Sub(worldPos.y, grab.y)]

\* A faulty single-selection drag as the doubles compute it: the press
\* point itself is taken for the grab offset.
DragSingleFlNoGrab(start, press, to) ==
    Fl(Sub(to, press))

\* One coordinate of the single-selection drag as the doubles compute it:
\* the node was at `start` when the pointer went down at world coordinate
\* `press`, the pointer is at world coordinate `to`.
DragSingleFl(start, press, to) ==
    Fl(Sub(to, Fl(Sub(press, start))))

\* One coordinate of a move of the multi-selection drag as the doubles
\* compute it: node.x + dx with dx = worldPos.x - dragStart.x.
DragMultiFl(pos, from, to) ==
    Fl(Add(pos, Fl(Sub(to, from))))

\* A faulty pan as the doubles compute it: the screen delta is taken to
\* world units before it is added to the offset.
PanOffsetFlInWorldUnits(offset, from, to) ==
    Fl(Add(offset, Fl(Div(Fl(Sub(to, from)), Fl(view.scale)))))

\* prev.offsetX + dx with dx = e.clientX - dragStart.x, as the doubles
\* compute it: the offset after a panning move from the screen coordinate
\* `from` to the screen coordinate `to`.
PanOffsetFl(offset, from, to) ==
    Fl(Add(offset, Fl(Sub(to, from))))

\* The view a panning pointer-move at the screen point (sx, sy) sets.
PanView(sx, sy) ==
    [view EXCEPT !.offsetX = Add(view.offsetX, Sub(Q(sx), dragStart.x)),
                 !.offsetY = Add(view.offsetY, Sub(Q(sy), dragStart.y))]

\* handlePointerMove.
PointerMove(sx, sy) ==
    LET worldPos == screenToWorld(Q(sx), Q(sy))
        penTool  == activeTool = "pen"
        handle   == /\ penTool /\ isPenDragging
                    /\ activePenPointIndex # <<>>
                    /\ activePenPointIndex[1] + 1 <= Len(penPoints)
        resize   == ~handle /\ resizeState # <<>>
        pan      == ~handle /\ ~resize /\ isPanning
        draw     == ~handle /\ ~resize /\ ~pan
                    /\ isDrawing /\ Len(selectedNodeIds) = 1
        box      == ~handle /\ ~resize /\ ~pan /\ ~draw /\ isBoxSelecting
        drag     == ~handle /\ ~resize /\ ~pan /\ ~draw /\ ~box
                    /\ isDragging /\ Len(selectedNodeIds) > 0
        rs       == resizeState[1]
        idx      == activePenPointIndex[1] + 1
        did      == IF handle THEN "handle" ELSE IF resize THEN "resize"
                    ELSE IF pan THEN "pan" ELSE IF draw THEN "draw"
                    ELSE IF box THEN "box" ELSE IF drag THEN "drag"
                    ELSE "none"
    IN  /\ draw => \A i \in DOMAIN nodes :
                    nodes[i].id = selectedNodeIds[1] /\ nodes[i].type = "draw"
                        => Len(nodes[i].points) < MaxStroke
        /\ currentPointerPos' =
               IF penTool THEN <<worldPos>> ELSE currentPointerPos
        /\ penPoints' =
               IF handle
               THEN [penPoints EXCEPT ![idx] = PenHandlePoint(penPoints[idx], worldPos)]
               ELSE penPoints
        /\ nodes' =
               IF resize
               THEN Map(nodes, LAMBDA n : IF n.id # rs.nodeId THEN n
                                          ELSE ResizeNode(n, rs, worldPos))
               ELSE IF draw
               THEN Map(nodes, LAMBDA n : IF n.id # selectedNodeIds[1] THEN n
                                          ELSE DrawNode(n, worldPos, drawingStart))
               ELSE IF drag
               THEN Map(nodes, LAMBDA n : IF Includes(selectedNodeIds, n.id)
                                          THEN DragNode(n, worldPos, dragStart)
                                          ELSE n)
               ELSE nodes
        /\ view' = IF pan THEN PanView(sx, sy) ELSE view
        /\ dragStart' = IF pan THEN Pt(Q(sx), Q(sy))
                        ELSE IF drag THEN worldPos ELSE dragStart
        /\ selectionBox' = IF box THEN <<BoxOf(boxStart, worldPos)>>
                           ELSE selectionBox
        /\ UNCHANGED <<uploads, isGenerating, generations>>
        /\ lastEvent' = Ev("move", FALSE, did)
        /\ gesture' = [gesture EXCEPT !.Q = worldPos]
        /\ UNCHANGED <<activeTool, selectedNodeIds, isDragging, isPanning,
                       isDrawing, resizeState, isBoxSelecting, boxStart,
                       drawingStart, isPenDragging, activePenPointIndex,
                       pressed, pressesLeft, created>>

\* The mode a release ends, for the event history.
EndedMode(boxEnd) ==
    IF boxEnd THEN "box" ELSE IF resizeState # <<>> THEN "resize"
    ELSE IF isPanning THEN "pan" ELSE IF isDrawing THEN "draw"
    ELSE IF isDragging THEN "drag" ELSE "none"

\* A faulty release: every creation is one-shot, a pencil stroke included.
ToolAfterReleaseOneShot ==
    IF isDrawing THEN "select" ELSE activeTool

\* The tool handlePointerUp leaves active: a creation other than a pencil
\* stroke is one-shot.
ToolAfterRelease ==
    IF isDrawing /\ activeTool # "pencil" THEN "select" ELSE activeTool

\* handlePointerUp, bound to both onPointerUp and onPointerLeave of the root;
\* type names which of the two events it serves.
handlePointerUp(type, shiftKey) ==
    LET boxEnd == isBoxSelecting /\ selectionBox # <<>>
    IN  /\ UNCHANGED <<uploads, isGenerating, generations>>
        /\ lastEvent' = Ev(type, shiftKey, EndedMode(boxEnd))
        /\ isPenDragging' = IF activeTool = "pen" THEN FALSE ELSE isPenDragging
        /\ selectedNodeIds' =
               IF boxEnd
               THEN BoxSelection(selectedNodeIds, BoxHits(selectionBox[1]), shiftKey)
               ELSE selectedNodeIds
        /\ selectionBox' = IF boxEnd THEN <<>> ELSE selectionBox
        /\ isBoxSelecting' = IF boxEnd THEN FALSE ELSE isBoxSelecting
        /\ resizeState' = <<>>
        /\ isPanning' = FALSE
        /\ isDragging' = FALSE
        /\ isDrawing' = FALSE
        /\ activeTool' = ToolAfterRelease
        /\ pressed' = FALSE
        /\ gesture' = NoGesture
        /\ UNCHANGED <<nodes, view, boxStart, dragStart, drawingStart, penPoints,
                       currentPointerPos, activePenPointIndex, pressesLeft,
                       created>>

PointerUp(shiftKey) == handlePointerUp("up", shiftKey)

PointerLeave(shiftKey) == handlePointerUp("leave", shiftKey)

\* A faulty selection: a press without shift always replaces the selection
\* by the pressed node, also when the node is part of a larger selection.
NodePressSelectionReplacing(nodeId, shiftKey) ==
    IF shiftKey
    THEN (IF Includes(selectedNodeIds, nodeId)
          THEN Filter(selectedNodeIds, LAMBDA i : i # nodeId)
          ELSE Append(selectedNodeIds, nodeId))
    ELSE <<nodeId>>

\* The multi-select logic of handleNodePointerDown: the selection after a
\* press on node nodeId with the select tool.
NodePressSelection(nodeId, shiftKey) ==
    IF shiftKey
    THEN (IF Includes(selectedNodeIds, nodeId)
          THEN Filter(selectedNodeIds, LAMBDA i : i # nodeId)
          ELSE Append(selectedNodeIds, nodeId))
    ELSE (IF ~Includes(selectedNodeIds, nodeId) THEN <<nodeId>>
          ELSE selectedNodeIds)

\* handleNodePointerDown: a press on the element of node nodeId.
NodePointerDown(nodeId, shiftKey, sx, sy) ==
    LET worldPos == screenToWorld(Q(sx), Q(sy))
        sel      == activeTool = "select"
        isin     == Includes(selectedNodeIds, nodeId)
        desel    == sel /\ shiftKey /\ isin
        kind     == IF ~sel THEN "noop" ELSE IF desel THEN "toggle" ELSE "drag"
    IN  /\ ~pressed
        /\ pressesLeft > 0
        /\ \E i \in DOMAIN nodes : nodes[i].id = nodeId
        /\ selectedNodeIds' =
               IF ~sel THEN selectedNodeIds
               ELSE NodePressSelection(nodeId, shiftKey)
        /\ isDragging' = IF ~sel THEN isDragging ELSE ~desel
        /\ dragStart' = IF sel /\ ~desel THEN worldPos ELSE dragStart
        /\ pressed' = TRUE
        /\ pressesLeft' = pressesLeft - 1
        /\ UNCHANGED <<uploads, isGenerating, generations>>
        /\ lastEvent' = Ev("nodedown", shiftKey, kind)
        /\ gesture' = MkGesture(kind, activeTool, shiftKey, worldPos, nodes,
                                selectedNodeIds)
        /\ UNCHANGED <<nodes, view, activeTool, isPanning, isDrawing,
                       resizeState, isBoxSelecting, boxStart, selectionBox,
                       drawingStart, penPoints, currentPointerPos,
                       isPenDragging, activePenPointIndex, created>>

\* A faulty key filter: the target of the key is not looked at.
SkipKeyNever(inTextField) == FALSE

\* Whether handleKeyDown returns at once: the key went to a text field.
SkipKey(inTextField) == inTextField

\* handleKeyDown (window keydown).  inTextField: the event target is an
\* INPUT, a TEXTAREA or content-editable; id is what generateId returns if
\* the key finishes a pen path.
KeyDownWithId(key, inTextField, id) ==
    LET skip   == SkipKey(inTextField)
        del    == /\ ~skip /\ key \in {"Backspace", "Delete"}
                  /\ Len(selectedNodeIds) > 0
        esc    == ~skip /\ key = "Escape" /\ activeTool = "pen"
        enter  == /\ ~skip /\ key = "Enter" /\ activeTool = "pen"
                  /\ Len(penPoints) > 1
        did    == IF skip THEN "skip" ELSE IF del THEN "delete"
                  ELSE IF esc THEN "cancel" ELSE IF enter THEN "finish"
                  ELSE "none"
    IN  /\ key \in {"Backspace", "Delete", "Escape", "Enter"}
        /\ enter => created < MaxCreated
        /\ nodes' =
               IF del THEN DeleteSelected(nodes, selectedNodeIds)
               ELSE IF enter THEN AddNode(nodes, PenPathNode(id, penPoints))
               ELSE nodes
        /\ selectedNodeIds' = IF del THEN <<>>
                              ELSE IF enter THEN <<id>> ELSE selectedNodeIds
        /\ penPoints' = IF esc \/ enter THEN <<>> ELSE penPoints
        /\ activePenPointIndex' =
               IF esc \/ enter THEN <<>> ELSE activePenPointIndex
        /\ created' = IF enter THEN created + 1 ELSE created
        /\ UNCHANGED <<uploads, isGenerating, generations>>
        /\ lastEvent' = Ev(key, inTextField, did)
        /\ gesture' = Dirty
        /\ UNCHANGED <<view, activeTool, isDragging, isPanning, isDrawing,
                       resizeState, isBoxSelecting, boxStart, selectionBox,
                       dragStart, drawingStart, currentPointerPos,
                       isPenDragging, pressed, pressesLeft>>

\* handleKeyDown when generateId returns an id no node has had.
KeyDown(key, inTextField) == KeyDownWithId(key, inTextField, generateId)

\* Toolbar's onSelectTool = setActiveTool.  The toolbar entries are buttons,
\* which the keyboard can activate while the pointer is held.
SelectTool(tool) ==
    /\ tool \in Tools
    /\ activeTool' = tool
    /\ UNCHANGED <<uploads, isGenerating, generations>>
    /\ lastEvent' = Ev("tool", FALSE, "none")
    /\ gesture' = Dirty
    /\ UNCHANGED <<nodes, view, selectedNodeIds, isDragging, isPanning,
                   isDrawing, resizeState, isBoxSelecting, boxStart,
                   selectionBox, dragStart, drawingStart, penPoints,
                   currentPointerPos, isPenDragging, activePenPointIndex,
                   pressed, pressesLeft, created>>

\* updateNodeContent, the onChange of a node's text editor.
UpdateNodeContent(id, content) ==
    /\ \E i \in DOMAIN nodes : nodes[i].id = id
    /\ nodes' = Map(nodes, LAMBDA n : IF n.id = id
                                      THEN [n EXCEPT !.content = content]
                                      ELSE n)
    /\ UNCHANGED <<uploads, isGenerating, generations>>
    /\ lastEvent' = Ev("content", FALSE, "none")
    /\ gesture' = Dirty
    /\ UNCHANGED <<view, activeTool, selectedNodeIds, isDragging, isPanning,
                   isDrawing, resizeState, isBoxSelecting, boxStart,
                   selectionBox, dragStart, drawingStart, penPoints,
                   currentPointerPos, isPenDragging, activePenPointIndex,
                   pressed, pressesLeft, created>>

\* handleLayerSelect, the onSelectNode of the layers panel: a click on the
\* row of node id, multi when a modifier is held.  A click needs the pointer
\* to be up.
LayerSelect(id, multi) ==
    /\ ~pressed
    /\ \E i \in DOMAIN nodes : nodes[i].id = id
    /\ selectedNodeIds' =
           IF multi
           THEN (IF Includes(selectedNodeIds, id)
                 THEN Filter(selectedNodeIds, LAMBDA nid : nid # id)
                 ELSE Append(selectedNodeIds, id))
           ELSE <<id>>
    /\ UNCHANGED <<uploads, isGenerating, generations>>
    /\ lastEvent' = Ev("layer", multi, "none")
    /\ gesture' = Dirty
    /\ UNCHANGED <<nodes, view, activeTool, isDragging, isPanning, isDrawing,
                   resizeState, isBoxSelecting, boxStart, selectionBox,
                   dragStart, drawingStart, penPoints, currentPointerPos,
                   isPenDragging, activePenPointIndex, pressed, pressesLeft,
                   created>>

\* A faulty primary node: the node selected first.
primarySelectedNodeFirst ==
    IF Len(selectedNodeIds) > 0
    THEN LET f == Find(selectedNodeIds[1])
         IN  IF f = <<>> THEN <<>> ELSE <<f[1]>>
    ELSE <<>>

\* primarySelectedNode: <<>> for null.
primarySelectedNode ==
    IF Len(selectedNodeIds) > 0
    THEN LET f == Find(selectedNodeIds[Len(selectedNodeIds)])
         IN  IF f = <<>> THEN <<>> ELSE <<f[1]>>
    ELSE <<>>

\* A Partial<CanvasNode> of style fields: "" / Undef / "keep" mark a field
\* the patch does not carry.
MkPatch(fillColor, fontSize, lock) ==
    [fillColor |-> fillColor, fontSize |-> fontSize, lock |-> lock]

\* { ...n, ...updates }
Patch(n, updates) ==
    [n EXCEPT !.fillColor = IF updates.fillColor = "" THEN @
                            ELSE updates.fillColor,
              !.fontSize = IF IsUndef(updates.fontSize) THEN @
                           ELSE updates.fontSize,
              !.aspectRatioLocked = IF updates.lock = "keep" THEN @
                                    ELSE updates.lock = "on"]

\* The toolbars are rendered for the primary node while no drag or resize
\* runs: TextToolbar for a text node, ShapeToolbar for a shape or path node.
ToolbarShown ==
    /\ primarySelectedNode # <<>>
    /\ ~isDragging
    /\ resizeState = <<>>

\* Patches TextToolbar sends (the font size).
TextPatches == {MkPatch("", Q(32), "keep")}

\* Patches ShapeToolbar sends (fill colour, the aspect-ratio lock).
ShapePatches == {MkPatch("#EF4444", Undef, "keep"), MkPatch("", Undef, "on"),
                 MkPatch("", Undef, "off")}

ToolbarPatches ==
    IF ~ToolbarShown THEN {}
    ELSE IF primarySelectedNode[1].type = "text" THEN TextPatches
    ELSE IF primarySelectedNode[1].type \in ShapeTools \cup {"path"}
    THEN ShapePatches
    ELSE {}

\* updateNodeStyle, the onUpdateNode of both toolbars.
UpdateNodeStyle(updates) ==
    /\ updates \in ToolbarPatches
    /\ nodes' = IF Len(selectedNodeIds) > 0
                THEN Map(nodes, LAMBDA n : IF Includes(selectedNodeIds, n.id)
                                           THEN Patch(n, updates) ELSE n)
                ELSE nodes
    /\ UNCHANGED <<uploads, isGenerating, generations>>
    /\ lastEvent' = Ev("style", FALSE, "none")
    /\ gesture' = Dirty
    /\ UNCHANGED <<view, activeTool, selectedNodeIds, isDragging, isPanning,
                   isDrawing, resizeState, isBoxSelecting, boxStart,
                   selectionBox, dragStart, drawingStart, penPoints,
                   currentPointerPos, isPenDragging, activePenPointIndex,
                   pressed, pressesLeft, created>>

\* MIN_SCALE, MAX_SCALE (src/constants.ts is not part of the sources at
\* hand): a positive lower and an upper limit around the initial scale.
MIN_SCALE == Rat(1, 10)
MAX_SCALE == Q(5)

\* A zoom without limits.
WheelScaleUnclamped(scale, deltaY) ==
    Mul(scale, Add(Q(1), Mul(Neg(deltaY), Rat(1, 1000))))

\* newScale of onWheel: zoomSensitivity = 0.001, delta = -e.deltaY *
\* zoomSensitivity, Math.min(Math.max(view.scale * (1 + delta), MIN_SCALE),
\* MAX_SCALE).
WheelScale(scale, deltaY) ==
    LET delta == Mul(Neg(deltaY), Rat(1, 1000))
    IN  Min(Max(Mul(scale, Add(Q(1), delta)), MIN_SCALE), MAX_SCALE)

\* newScale of onWheel as the doubles compute it.
WheelScaleFl(scale, deltaY) ==
    LET delta == Fl(Mul(Neg(deltaY), Fl(Rat(1, 1000))))
    IN  Min(Max(Fl(Mul(scale, Fl(Add(Q(1), delta)))), Fl(MIN_SCALE)),
            Fl(MAX_SCALE))

\* A zoom that derives the new offset with the scale before the zoom.
ZoomAtCursorFlOldScale(clientX, clientY, deltaY) ==
    LET newScale    == WheelScaleFl(Fl(view.scale), deltaY)
        cursorWorld == screenToWorldFl(clientX, clientY)
    IN  [scale   |-> newScale,
         offsetX |-> Fl(Sub(clientX, Fl(Mul(cursorWorld.x, Fl(view.scale))))),
         offsetY |-> Fl(Sub(clientY, Fl(Mul(cursorWorld.y, Fl(view.scale)))))]

\* The view the modifier branch of onWheel passes to setView, as the doubles
\* compute it.
ZoomAtCursorFl(clientX, clientY, deltaY) ==
    LET newScale    == WheelScaleFl(Fl(view.scale), deltaY)
        cursorWorld == screenToWorldFl(clientX, clientY)
    IN  [scale   |-> newScale,
         offsetX |-> Fl(Sub(clientX, Fl(Mul(cursorWorld.x, newScale)))),
         offsetY |-> Fl(Sub(clientY, Fl(Mul(cursorWorld.y, newScale))))]

\* onWheel of the canvas; modifier is e.ctrlKey || e.metaKey.
Wheel(clientX, clientY, deltaX, deltaY, modifier) ==
    LET newScale    == WheelScale(view.scale, deltaY)
        cursorWorld == screenToWorld(clientX, clientY)
    IN  /\ view' =
               IF modifier
               THEN [scale   |-> newScale,
                     offsetX |-> Sub(clientX, Mul(cursorWorld.x, newScale)),
                     offsetY |-> Sub(clientY, Mul(cursorWorld.y, newScale))]
               ELSE [view EXCEPT !.offsetX = Sub(@, deltaX),
                                 !.offsetY = Sub(@, deltaY)]
        /\ UNCHANGED <<uploads, isGenerating, generations>>
        /\ lastEvent' = Ev("wheel", modifier,
                           IF modifier THEN "zoom" ELSE "pan")
        /\ gesture' = Dirty
        /\ UNCHANGED <<nodes, activeTool, selectedNodeIds, isDragging,
                       isPanning, isDrawing, resizeState, isBoxSelecting,
                       boxStart, selectionBox, dragStart, drawingStart,
                       penPoints, currentPointerPos, isPenDragging,
                       activePenPointIndex, pressed, pressesLeft, created>>

\* The zoom-out button: scale: Math.max(v.scale * 0.8, MIN_SCALE).
ZoomOut ==
    /\ view' = [view EXCEPT !.scale = Max(Mul(@, Rat(8, 10)), MIN_SCALE)]
    /\ UNCHANGED <<uploads, isGenerating, generations>>
    /\ lastEvent' = Ev("zoomout", FALSE, "zoom")
    /\ gesture' = Dirty
    /\ UNCHANGED <<nodes, activeTool, selectedNodeIds, isDragging, isPanning,
                   isDrawing, resizeState, isBoxSelecting, boxStart,
                   selectionBox, dragStart, drawingStart, penPoints,
                   currentPointerPos, isPenDragging, activePenPointIndex,
                   pressed, pressesLeft, created>>

\* The zoom-in button: scale: Math.min(v.scale * 1.2, MAX_SCALE).
ZoomIn ==
    /\ view' = [view EXCEPT !.scale = Min(Mul(@, Rat(12, 10)), MAX_SCALE)]
    /\ UNCHANGED <<uploads, isGenerating, generations>>
    /\ lastEvent' = Ev("zoomin", FALSE, "zoom")
    /\ gesture' = Dirty
    /\ UNCHANGED <<nodes, activeTool, selectedNodeIds, isDragging, isPanning,
                   isDrawing, resizeState, isBoxSelecting, boxStart,
                   selectionBox, dragStart, drawingStart, penPoints,
                   currentPointerPos, isPenDragging, activePenPointIndex,
                   pressed, pressesLeft, created>>

\* { ...n, ...updates } for a Partial<CanvasNode> given as a record of the
\* fields it carries: each field of updates replaces the field of n.
Spread(n, updates) ==
    [f \in DOMAIN n |-> IF f \in DOMAIN updates THEN updates[f] ELSE n[f]]

\* Values the type Partial<CanvasNode> admits: a style field, the kind, the
\* id.
AnyPatches == {[fillColor |-> "#EF4444"], [type |-> "circle"], [id |-> 9]}

\* updateNodePoints, the onUpdateNode of a node.
UpdateNodePoints(id, updates) ==
    /\ \E i \in DOMAIN nodes : nodes[i].id = id
    /\ nodes' = Map(nodes, LAMBDA n : IF n.id = id
                                      THEN Spread(n, updates) ELSE n)
    /\ UNCHANGED <<uploads, isGenerating, generations>>
    /\ lastEvent' = Ev("points", FALSE, "none")
    /\ gesture' = Dirty
    /\ UNCHANGED <<view, activeTool, selectedNodeIds, isDragging, isPanning,
                   isDrawing, resizeState, isBoxSelecting, boxStart,
                   selectionBox, dragStart, drawingStart, penPoints,
                   currentPointerPos, isPenDragging, activePenPointIndex,
                   pressed, pressesLeft, created>>

\* Heights the auto-resize effect of a text node can ask for:
\* Math.max(scrollHeight, fontSize * 1.2), whatever the browser measured.
ScrollHeights == {Q(60), Q(84)}

\* handleResizeNode, the onResize of a node: called by the auto-resize
\* effect of a text node with the node's id and width and a new height more
\* than 2 away from the node's height.
HandleResizeNode(id, width, height) ==
    /\ \E i \in DOMAIN nodes :
           /\ nodes[i].id = id /\ nodes[i].type = "text"
           /\ nodes[i].width = width
           /\ Gt(Sub(height, nodes[i].height), Q(2))
              \/ Gt(Sub(nodes[i].height, height), Q(2))
    /\ nodes' = IF resizeState = <<>>
                THEN Map(nodes, LAMBDA n :
                         IF n.id = id
                         THEN [n EXCEPT !.width = width, !.height = height]
                         ELSE n)
                ELSE nodes
    /\ UNCHANGED <<uploads, isGenerating, generations>>
    /\ lastEvent' = Ev("autosize", FALSE, "none")
    /\ gesture' = Dirty
    /\ UNCHANGED <<view, activeTool, selectedNodeIds, isDragging, isPanning,
                   isDrawing, resizeState, isBoxSelecting, boxStart,
                   selectionBox, dragStart, drawingStart, penPoints,
                   currentPointerPos, isPenDragging, activePenPointIndex,
                   pressed, pressesLeft, created>>

\* handleImageUpload of TextToolbar, the onChange of its file input: a
\* FileReader starts to read the chosen file.  Its onload callback holds the
\* onUpdateNode of this render, that is updateNodeStyle with the selection
\* of this render.  The file dialog is modal: the pointer is up.
ImageUploadStart ==
    /\ ~pressed
    /\ ToolbarShown
    /\ primarySelectedNode[1].type = "text"
    /\ Cardinality(uploads) < MaxUploads
    /\ uploads' = uploads \cup {selectedNodeIds}
    /\ UNCHANGED <<isGenerating, generations>>
    /\ lastEvent' = Ev("upload", FALSE, "none")
    /\ gesture' = Dirty
    /\ UNCHANGED <<nodes, view, activeTool, selectedNodeIds, isDragging,
                   isPanning, isDrawing, resizeState, isBoxSelecting,
                   boxStart, selectionBox, dragStart, drawingStart, penPoints,
                   currentPointerPos, isPenDragging, activePenPointIndex,
                   pressed, pressesLeft, created>>

\* reader.onload of handleImageUpload: the file has been read,
\* onUpdateNode({ fillColor: `url(${url})` }) runs updateNodeStyle with the
\* selection ids its closure holds, on the store of now.
ImageUploadDone(ids) ==
    /\ ids \in uploads
    /\ nodes' = IF Len(ids) > 0
                THEN Map(nodes, LAMBDA n :
                         IF Includes(ids, n.id)
                         THEN Patch(n, MkPatch("url(data)", Undef, "keep"))
                         ELSE n)
                ELSE nodes
    /\ uploads' = uploads \ {ids}
    /\ UNCHANGED <<isGenerating, generations>>
    /\ lastEvent' = Ev("load", FALSE, "style")
    /\ gesture' = Dirty
    /\ UNCHANGED <<view, activeTool, selectedNodeIds, isDragging, isPanning,
                   isDrawing, resizeState, isBoxSelecting, boxStart,
                   selectionBox, dragStart, drawingStart, penPoints,
                   currentPointerPos, isPenDragging, activePenPointIndex,
                   pressed, pressesLeft, created>>

\* The single-selection variant renders AIControls, with the generate and
\* the delete control, when a node that is not a text node is selected and
\* neither a drag nor a resize is going on.
AIControlsShown ==
    /\ Len(selectedNodeIds) = 1
    /\ Find(selectedNodeIds[1]) # <<>>
    /\ ~isDragging
    /\ resizeState = <<>>
    /\ Find(selectedNodeIds[1])[1].type # "text"

\* handleDeleteNode of the single-selection variant, the onDelete of the
\* controls shown at the selected node: a click, the pointer is up.
DeleteNode ==
    /\ ~pressed
    /\ AIControlsShown
    /\ nodes' = Filter(nodes, LAMBDA n : n.id # selectedNodeIds[1])
    /\ selectedNodeIds' = <<>>
    /\ lastEvent' = Ev("deletenode", FALSE, "delete")
    /\ gesture' = Dirty
    /\ UNCHANGED <<view, activeTool, isDragging, isPanning, isDrawing,
                   resizeState, isBoxSelecting, boxStart, selectionBox,
                   dragStart, drawingStart, penPoints, currentPointerPos,
                   isPenDragging, activePenPointIndex, pressed, pressesLeft,
                   created, uploads, isGenerating, generations>>

\* The number of suggestions generateBrainstormIdeas may resolve with.
IdeaCounts == {0, 1, 2}

\* Math.cos(angle) * radius and Math.sin(angle) * radius * 0.8 for the
\* index-th of count suggestions, angle = PI + (index + 1) * PI / (count + 1)
\* and radius = 250, to the nearest whole number: the angles are 3PI/2 for
\* one suggestion, 4PI/3 and 5PI/3 for two.
IdeaDx(count, index) ==
    IF count = 1 THEN Q(0) ELSE IF index = 0 THEN Q(-125) ELSE Q(125)

IdeaDy(count, index) ==
    IF count = 1 THEN Q(-200) ELSE Q(-173)

\* The node handleAIGenerate makes of the index-th of count suggestions
\* around the node its closure holds.
IdeaNode(node, count, index, id) ==
    [MkNode(id, "sticky",
            Add(Add(node.x, IdeaDx(count, index)),
                Div(Sub(node.width, Q(200)), Q(2))),
            Add(Add(Add(node.y, IdeaDy(count, index)), node.height), Q(50)),
            Q(200), Q(200), "COLORS.yellow", Q(16), FALSE, <<>>)
        EXCEPT !.content = "idea"]

\* ideas.map(...): generateId is called once per suggestion.
NewIdeaNodes(node, count) ==
    [k \in 1 .. count |-> IdeaNode(node, count, k - 1, generateId + (k - 1))]

\* A faulty completion: the new nodes are appended to the store of the
\* render in which the generation began.
AppendIdeasToStale(prev, stale, newNodes) == stale \o newNodes

\* setNodes(prev => [...prev, ...newNodes]); `stale` is the nodes array the
\* closure of handleAIGenerate holds.
AppendIdeas(prev, stale, newNodes) == prev \o newNodes

\* generations without its i-th element.
WithoutGeneration(i) ==
    SubSeq(generations, 1, i - 1)
        \o SubSeq(generations, i + 1, Len(generations))

\* handleAIGenerate of the single-selection variant up to its await: a click
\* on the generate control of the selected node.
AIGenerateStart ==
    /\ ~pressed
    /\ AIControlsShown
    /\ Len(generations) < MaxGenerations
    /\ isGenerating' = TRUE
    /\ generations' = Append(generations,
                             [node  |-> Find(selectedNodeIds[1])[1],
                              nodes |-> nodes])
    /\ lastEvent' = Ev("generate", FALSE, "none")
    /\ gesture' = Dirty
    /\ UNCHANGED <<nodes, view, activeTool, selectedNodeIds, isDragging,
                   isPanning, isDrawing, resizeState, isBoxSelecting,
                   boxStart, selectionBox, dragStart, drawingStart, penPoints,
                   currentPointerPos, isPenDragging, activePenPointIndex,
                   pressed, pressesLeft, created, uploads>>

\* handleAIGenerate after its await, generateBrainstormIdeas having resolved
\* with count suggestions for the i-th call in flight: the try block to its
\* end, then finally.  The flag of the event tells whether the source node
\* has left the store in the meantime.
AIGenerateDone(i, count) ==
    /\ i \in DOMAIN generations
    /\ nodes' = AppendIdeas(nodes, generations[i].nodes,
                            NewIdeaNodes(generations[i].node, count))
    /\ created' = created + count
    /\ isGenerating' = FALSE
    /\ generations' = WithoutGeneration(i)
    /\ lastEvent' = Ev("generated", Find(generations[i].node.id) = <<>>,
                       "append")
    /\ gesture' = Dirty
    /\ UNCHANGED <<view, activeTool, selectedNodeIds, isDragging, isPanning,
                   isDrawing, resizeState, isBoxSelecting, boxStart,
                   selectionBox, dragStart, drawingStart, penPoints,
                   currentPointerPos, isPenDragging, activePenPointIndex,
                   pressed, pressesLeft, uploads>>

\* handleAIGenerate after its await, generateBrainstormIdeas having rejected:
\* catch, then finally.
AIGenerateFail(i) ==
    /\ i \in DOMAIN generations
    /\ isGenerating' = FALSE
    /\ generations' = WithoutGeneration(i)
    /\ lastEvent' = Ev("generated", Find(generations[i].node.id) = <<>>,
                       "fail")
    /\ gesture' = Dirty
    /\ UNCHANGED <<nodes, view, activeTool, selectedNodeIds, isDragging,
                   isPanning, isDrawing, resizeState, isBoxSelecting,
                   boxStart, selectionBox, dragStart, drawingStart, penPoints,
                   currentPointerPos, isPenDragging, activePenPointIndex,
                   pressed, pressesLeft, created, uploads>>

\* ------------------------------------------------------------------------
\* Initial state and specifications
\* ------------------------------------------------------------------------

\* INITIAL_NODES (src/constants.ts is not part of the sources at hand): a
\* rectangle and a text node that do not overlap.
INITIAL_NODES ==
    <<MkNode(1, "rectangle", Q(-10), Q(-10), Q(20), Q(10), "#dbeafe", Undef,
             FALSE, <<>>),
      MkNode(2, "text", Q(20), Q(0), Q(200), Q(60), "#000000", Q(24), FALSE,
             <<>>)>>

\* The view after construction: scale INITIAL_SCALE, offset at the middle of
\* the window (a 20 x 20 px window here).
InitialView == [scale |-> Q(1), offsetX |-> Q(10), offsetY |-> Q(10)]

InitWith(store, v, budget) ==
    /\ nodes = store
    /\ view = v
    /\ activeTool = "select"
    /\ selectedNodeIds = <<>>
    /\ isDragging = FALSE
    /\ isPanning = FALSE
    /\ isDrawing = FALSE
    /\ resizeState = <<>>
    /\ isBoxSelecting = FALSE
    /\ boxStart = Pt(Q(0), Q(0))
    /\ selectionBox = <<>>
    /\ dragStart = Pt(Q(0), Q(0))
    /\ drawingStart = Pt(Q(0), Q(0))
    /\ penPoints = <<>>
    /\ currentPointerPos = <<>>
    /\ isPenDragging = FALSE
    /\ activePenPointIndex = <<>>
    /\ pressed = FALSE
    /\ pressesLeft = budget
    /\ created = 0
    /\ lastEvent = Ev("init", FALSE, "none")
    /\ gesture = NoGesture
    /\ uploads = {}
    /\ isGenerating = FALSE
    /\ generations = <<>>

Init == InitWith(INITIAL_NODES, InitialView, MaxPresses)

NodeIds == {nodes[i].id : i \in DOMAIN nodes}

LineIds == {nodes[i].id : i \in {j \in DOMAIN nodes :
                                     nodes[j].type \in {"line", "arrow"}}}

Keys == {"Backspace", "Delete", "Escape", "Enter"}

\* The tools the toolbar offers; rectangle stands for the seven shape tools,
\* which share every code path.
ToolbarTools == {"select", "hand", "pen", "rectangle", "line", "arrow",
                 "pencil", "text"}

\* The handlers of the canvas, the nodes, the keyboard and the toolbars with
\* every tool and every input, one press per behaviour.  A resize handle
\* exists only on a node an earlier press or the layers panel has selected:
\* presses on handles are part of the other specifications.
Next ==
    \/ \E p \in Pts, button \in {0, 1}, shiftKey \in BOOLEAN,
          onCanvas \in BOOLEAN :
           PointerDown(p[1], p[2], button, shiftKey, onCanvas)
    \/ \E p \in Pts : PointerMove(p[1], p[2])
    \/ \E shiftKey \in BOOLEAN : PointerUp(shiftKey)
    \/ \E shiftKey \in BOOLEAN : PointerLeave(shiftKey)
    \/ \E id \in NodeIds, shiftKey \in BOOLEAN, p \in Pts :
           NodePointerDown(id, shiftKey, p[1], p[2])
    \/ \E key \in Keys, inTextField \in BOOLEAN : KeyDown(key, inTextField)
    \/ \E tool \in ToolbarTools : SelectTool(tool)
    \/ \E updates \in ToolbarPatches : UpdateNodeStyle(updates)

Spec == Init /\ [][Next]_vars

\* The select tool with the layers panel, the style toolbars and the delete
\* keys: selections of several nodes, box selection, drag and resize, one
\* press per behaviour.
NextSelect ==
    \/ \E p \in Pts, shiftKey \in BOOLEAN :
           PointerDown(p[1], p[2], 0, shiftKey, TRUE)
    \/ \E id \in NodeIds, h \in Handles, p \in Pts :
           ResizeStart(id, h, p[1], p[2])
    \/ \E p \in Pts : PointerMove(p[1], p[2])
    \/ \E shiftKey \in BOOLEAN : PointerUp(shiftKey)
    \/ \E id \in NodeIds, shiftKey \in BOOLEAN, p \in Pts :
           NodePointerDown(id, shiftKey, p[1], p[2])
    \/ \E key \in {"Delete", "Backspace"}, inTextField \in BOOLEAN :
           KeyDown(key, inTextField)
    \/ \E id \in NodeIds, multi \in BOOLEAN : LayerSelect(id, multi)
    \/ \E updates \in ToolbarPatches : UpdateNodeStyle(updates)

SpecSelect == Init /\ [][NextSelect]_vars

InitTwo == InitWith(INITIAL_NODES, InitialView, MaxGestures)

\* Two gestures in a row with the select and the pen tool.
NextPen ==
    \/ \E p \in Pts, button \in {0, 1} :
           PointerDown(p[1], p[2], button, FALSE, TRUE)
    \/ \E id \in NodeIds, h \in Handles, p \in Pts :
           ResizeStart(id, h, p[1], p[2])
    \/ \E p \in Pts : PointerMove(p[1], p[2])
    \/ PointerUp(FALSE)
    \/ PointerLeave(FALSE)
    \/ \E id \in NodeIds, p \in Pts : NodePointerDown(id, FALSE, p[1], p[2])
    \/ \E key \in {"Delete", "Escape", "Enter"} : KeyDown(key, FALSE)
    \/ \E tool \in {"select", "pen"} : SelectTool(tool)

SpecPen == InitTwo /\ [][NextPen]_vars

\* Two gestures in a row with a shape tool: a shape is drawn, styled and
\* resized.
NextShape ==
    \/ \E p \in Pts : PointerDown(p[1], p[2], 0, FALSE, TRUE)
    \/ \E id \in NodeIds, h \in Handles, p \in Pts :
           ResizeStart(id, h, p[1], p[2])
    \/ \E p \in Pts : PointerMove(p[1], p[2])
    \/ PointerUp(FALSE)
    \/ \E id \in NodeIds, p \in Pts : NodePointerDown(id, FALSE, p[1], p[2])
    \/ SelectTool("rectangle")
    \/ \E updates \in ToolbarPatches : UpdateNodeStyle(updates)

SpecShape == InitTwo /\ [][NextShape]_vars

\* Two gestures in a row with the line and arrow tools: a line is drawn,
\* then selected with others (shift-press), dragged, styled, edited or left
\* alone while others are deleted.
NextLine ==
    \/ \E p \in Pts : PointerDown(p[1], p[2], 0, FALSE, TRUE)
    \/ \E id \in NodeIds, h \in Handles, p \in Pts :
           ResizeStart(id, h, p[1], p[2])
    \/ \E p \in Pts : PointerMove(p[1], p[2])
    \/ PointerUp(FALSE)
    \/ \E id \in NodeIds, shiftKey \in BOOLEAN, p \in Pts :
           NodePointerDown(id, shiftKey, p[1], p[2])
    \/ KeyDown("Delete", FALSE)
    \/ \E tool \in {"line", "arrow"} : SelectTool(tool)
    \/ \E id \in LineIds : UpdateNodeContent(id, "x")
    \/ \E updates \in ToolbarPatches : UpdateNodeStyle(updates)

SpecLine == InitTwo /\ [][NextLine]_vars

\* The pen tool alone: anchors are placed, handles dragged out, paths closed
\* by a press on the first anchor, finished by Enter, abandoned by Escape.
NextPath ==
    \/ \E p \in Take(MaxPathPts) : PointerDown(p[1], p[2], 0, FALSE, TRUE)
    \/ \E p \in Take(MaxPathPts) : PointerMove(p[1], p[2])
    \/ PointerUp(FALSE)
    \/ \E key \in {"Enter", "Escape"} : KeyDown(key, FALSE)
    \/ SelectTool("pen")

InitPath == InitWith(INITIAL_NODES, InitialView, MaxPathPresses)

SpecPath == InitPath /\ [][NextPath]_vars

\* The pen tool alone, two presses: anchors with handles dragged out in
\* every direction the screen points allow, finished by Enter.
NextHandles ==
    \/ \E p \in Take(MaxHandlePts) : PointerDown(p[1], p[2], 0, FALSE, TRUE)
    \/ \E p \in Take(MaxHandlePts) : PointerMove(p[1], p[2])
    \/ PointerUp(FALSE)
    \/ \E key \in {"Enter", "Escape"} : KeyDown(key, FALSE)
    \/ SelectTool("pen")

SpecHandles == InitTwo /\ [][NextHandles]_vars

\* The update functions of the nodes and the toolbars, on nodes chosen in
\* the layers panel, the pointer staying up.
NextPatch ==
    \/ \E id \in NodeIds, multi \in BOOLEAN : LayerSelect(id, multi)
    \/ \E id \in NodeIds : UpdateNodeContent(id, "x")
    \/ \E updates \in ToolbarPatches : UpdateNodeStyle(updates)
    \/ \E id \in NodeIds, updates \in AnyPatches :
           UpdateNodePoints(id, updates)
    \/ \E i \in DOMAIN nodes, height \in ScrollHeights :
           HandleResizeNode(nodes[i].id, nodes[i].width, height)

SpecPatch == Init /\ [][NextPatch]_vars

\* e.deltaY of the wheel events that zoom: the scale is doubled, or
\* multiplied by -1, before it is clamped.
ZoomDeltas == {-1000, 2000}

\* <<e.deltaX, e.deltaY>> of the wheel events that pan.
PanDeltas == {<<10, 0>>, <<0, -10>>}

\* Points (screen points and world points alike) the round trip is tried
\* on.
RoundTripPoints == {<<0, 0>>, <<20, 10>>, <<7, 30>>, <<-12, -5>>, <<30, -20>>}

\* The view is small enough for another zoom or wheel pan.
ViewSmall ==
    /\ view.scale.d <= MaxViewDen
    /\ view.offsetX.d <= MaxViewDen /\ view.offsetY.d <= MaxViewDen
    /\ Le(Abs(view.offsetX), Q(MaxPan)) /\ Le(Abs(view.offsetY), Q(MaxPan))

\* The view: wheel zoom at the cursor, wheel pan, the zoom buttons, and one
\* pan with the middle button.
NextView ==
    \/ \E p \in Pts, deltaY \in ZoomDeltas :
           ViewSmall /\ Wheel(Q(p[1]), Q(p[2]), Q(0), Q(deltaY), TRUE)
    \/ \E d \in PanDeltas :
           ViewSmall /\ Wheel(Q(0), Q(0), Q(d[1]), Q(d[2]), FALSE)
    \/ ViewSmall /\ ZoomIn
    \/ ViewSmall /\ ZoomOut
    \/ \E p \in Pts : PointerDown(p[1], p[2], 1, FALSE, TRUE)
    \/ \E p \in Pts : PointerMove(p[1], p[2])
    \/ PointerUp(FALSE)

SpecView == Init /\ [][NextView]_vars

\* The view states alone: every view the wheel and the zoom buttons lead to,
\* the pointer staying up.
NextZoom ==
    \/ \E p \in Pts, deltaY \in ZoomDeltas :
           ViewSmall /\ Wheel(Q(p[1]), Q(p[2]), Q(0), Q(deltaY), TRUE)
    \/ \E d \in PanDeltas :
           ViewSmall /\ Wheel(Q(0), Q(0), Q(d[1]), Q(d[2]), FALSE)
    \/ ViewSmall /\ ZoomIn
    \/ ViewSmall /\ ZoomOut

SpecZoom == Init /\ [][NextZoom]_vars

\* Image upload from the text toolbar, while nodes are selected in the
\* layers panel, styled and deleted.
NextUpload ==
    \/ \E id \in NodeIds, multi \in BOOLEAN : LayerSelect(id, multi)
    \/ ImageUploadStart
    \/ \E ids \in uploads : ImageUploadDone(ids)
    \/ \E updates \in ToolbarPatches : UpdateNodeStyle(updates)
    \/ KeyDown("Delete", FALSE)

SpecUpload == Init /\ [][NextUpload]_vars

\* Two gestures in a row with the pencil and a shape tool: strokes and
\* shapes are drawn one after the other, the pointer leaves the window or
\* is released.
NextPencil ==
    \/ \E p \in Pts, button \in {0, 1} :
           PointerDown(p[1], p[2], button, FALSE, TRUE)
    \/ \E p \in Pts : PointerMove(p[1], p[2])
    \/ PointerUp(FALSE)
    \/ PointerLeave(FALSE)
    \/ \E tool \in {"pencil", "rectangle", "select"} : SelectTool(tool)

SpecPencil == InitTwo /\ [][NextPencil]_vars

\* Selections built by presses on nodes, by the layers panel and by the
\* creation of nodes, with deletion: two presses, no moves.
NextPrimary ==
    \/ \E p \in Pts : PointerDown(p[1], p[2], 0, FALSE, TRUE)
    \/ \E id \in NodeIds, shiftKey \in BOOLEAN, p \in Pts :
           NodePointerDown(id, shiftKey, p[1], p[2])
    \/ PointerUp(FALSE)
    \/ \E id \in NodeIds, multi \in BOOLEAN : LayerSelect(id, multi)
    \/ KeyDown("Delete", FALSE)
    \/ \E tool \in {"select", "rectangle", "text"} : SelectTool(tool)

SpecPrimary == InitTwo /\ [][NextPrimary]_vars

\* Presses in the finishing specification.
MaxEnterPresses == 3

\* A pen path finished by Enter at any moment, also in the middle of a press
\* that began with the pen or with a shape tool.
NextEnter ==
    \/ \E p \in Pts : PointerDown(p[1], p[2], 0, FALSE, TRUE)
    \/ \E p \in Pts : PointerMove(p[1], p[2])
    \/ PointerUp(FALSE)
    \/ KeyDown("Enter", FALSE)
    \/ \E tool \in {"pen", "rectangle"} : SelectTool(tool)

InitEnter == InitWith(INITIAL_NODES, InitialView, MaxEnterPresses)

SpecEnter == InitEnter /\ [][NextEnter]_vars

\* The multi-selection engine: presses on nodes and box selections with and
\* without shift, layers-panel clicks, pen paths finished with Enter, deletion.  The pointer moves while a selection box is open.
NextMulti ==
    \/ \E p \in Pts, shiftKey \in BOOLEAN :
           PointerDown(p[1], p[2], 0, shiftKey, TRUE)
    \/ \E p \in Pts : isBoxSelecting /\ PointerMove(p[1], p[2])
    \/ \E shiftKey \in BOOLEAN : PointerUp(shiftKey)
    \/ \E id \in NodeIds, shiftKey \in BOOLEAN :
           NodePointerDown(id, shiftKey, ScreenPoints[1][1], ScreenPoints[1][2])
    \/ \E id \in NodeIds, multi \in BOOLEAN : LayerSelect(id, multi)
    \/ \E key \in {"Delete", "Enter"} : KeyDown(key, FALSE)
    \/ \E tool \in {"select", "pen"} : SelectTool(tool)

SpecMulti == InitEnter /\ [][NextMulti]_vars

\* The single-selection variant with a generation in flight: a node is
\* selected by a press, suggestions are asked for, and while they are
\* awaited nodes are dragged, resized, created and deleted.
NextGenerate ==
    \/ \E id \in NodeIds, p \in Pts : NodePointerDown(id, FALSE, p[1], p[2])
    \/ \E id \in NodeIds, h \in {"n", "se"}, p \in Pts :
           ResizeStart(id, h, p[1], p[2])
    \/ \E p \in Pts :
           activeTool # "select" /\ PointerDown(p[1], p[2], 0, FALSE, TRUE)
    \/ \E p \in Pts : PointerMove(p[1], p[2])
    \/ PointerUp(FALSE)
    \/ SelectTool("rectangle")
    \/ DeleteNode
    \/ created < MaxCreated /\ AIGenerateStart
    \/ \E i \in DOMAIN generations, count \in IdeaCounts :
           AIGenerateDone(i, count)
    \/ \E i \in DOMAIN generations : AIGenerateFail(i)

SpecGenerate == InitTwo /\ [][NextGenerate]_vars

\* e.deltaY of one notch of the wheel, either way.
FineZoomDeltas == {-100, 100}

\* Drags of one node under a zoomed view: wheel zooms at the cursor, then
\* presses on a node and moves.
NextDrag ==
    \/ \E p \in Pts, deltaY \in FineZoomDeltas :
           /\ view.scale.d <= MaxPanDen /\ pressesLeft = MaxPresses
           /\ Wheel(Q(p[1]), Q(p[2]), Q(0), Q(deltaY), TRUE)
    \/ \E id \in NodeIds, p \in Pts : NodePointerDown(id, FALSE, p[1], p[2])
    \/ \E p \in Pts : PointerMove(p[1], p[2])
    \/ PointerUp(FALSE)

SpecDrag == Init /\ [][NextDrag]_vars

\* Pans of a zoomed view: wheel zooms at the cursor, then pans with the
\* middle button.
NextPan ==
    \/ \E p \in Pts, deltaY \in FineZoomDeltas :
           /\ view.scale.d <= MaxPanDen /\ pressesLeft = MaxPresses
           /\ Wheel(Q(p[1]), Q(p[2]), Q(0), Q(deltaY), TRUE)
    \/ \E p \in Pts : PointerDown(p[1], p[2], 1, FALSE, TRUE)
    \/ \E p \in Pts : PointerMove(p[1], p[2])
    \/ PointerUp(FALSE)

SpecPan == Init /\ [][NextPan]_vars

\* Two creations in a row, by a click with a shape tool or by a pen path
\* finished with Enter, generateId returning any of its outcomes.
NextIds ==
    \/ \E p \in Pts, id \in generateIdOutcomes :
           PointerDownWithId(p[1], p[2], 0, FALSE, TRUE, id)
    \/ \E p \in Pts : PointerMove(p[1], p[2])
    \/ PointerUp(FALSE)
    \/ \E id \in generateIdOutcomes : KeyDownWithId("Enter", FALSE, id)
    \/ \E tool \in {"rectangle", "pen"} : SelectTool(tool)

SpecIds == InitTwo /\ [][NextIds]_vars

\* ------------------------------------------------------------------------
\* Properties
\* ------------------------------------------------------------------------

B2N(b) == IF b THEN 1 ELSE 0

\* The number of interaction modes that are active.
ModeCount ==
    B2N(isPanning) + B2N(isBoxSelecting) + B2N(isDrawing)
    + B2N(resizeState # <<>>) + B2N(isDragging) + B2N(isPenDragging)

Released == lastEvent.type \in {"up", "leave"}

Origin == Pt(Q(0), Q(0))

AtLeast10(n) == Ge(n.width, Q(10)) /\ Ge(n.height, Q(10))

\* C1: in every reachable state at most one of the modes isPanning,
\* isBoxSelecting, isDrawing, resizeState != null, isDragging and
\* isPenDragging is active.
C1_AtMostOneMode == ModeCount <= 1

\* C2: immediately after any pointer-up or pointer-leave no mode is left
\* active: resizeState is null, isPanning, isDragging, isDrawing,
\* isBoxSelecting and isPenDragging are false and selectionBox is null.
C2_ReleaseClearsEveryMode ==
    Released =>
        /\ resizeState = <<>>
        /\ ~isPanning /\ ~isDragging /\ ~isDrawing
        /\ ~isBoxSelecting /\ ~isPenDragging
        /\ selectionBox = <<>>

\* C3: whenever no interaction is in progress (the pointer is up and no
\* drawing, resize or drag is under way), every node the engine created has
\* width >= 10 and height >= 10.
C3_CommittedNodesAtLeast10 ==
    (~pressed /\ ~isDrawing /\ ~isDragging /\ resizeState = <<>>) =>
        \A i \in DOMAIN nodes : EngineCreated(nodes[i]) => AtLeast10(nodes[i])

\* C4: after every pointer-move that resized a node, whatever the handle,
\* the node kind and the pointer position, the resized node has width >= 10
\* and height >= 10.
C4_ResizeKeepsFloor ==
    (lastEvent.type = "move" /\ lastEvent.did = "resize") =>
        \A i \in DOMAIN nodes :
            nodes[i].id = resizeState[1].nodeId => AtLeast10(nodes[i])

\* C5: after every pointer-move that resized a node which is not a text node
\* and is aspect-locked or an image, width * startHeight = height *
\* startWidth for the start geometry of the resize.
C5_LockedResizeKeepsRatio ==
    (lastEvent.type = "move" /\ lastEvent.did = "resize") =>
        \A i \in DOMAIN nodes :
            LET n  == nodes[i]
                sd == resizeState[1].startDims
            IN  (/\ n.id = resizeState[1].nodeId
                 /\ n.type # "text"
                 /\ (n.aspectRatioLocked \/ n.type = "image"))
                => Mul(n.width, sd.height) = Mul(n.height, sd.width)

\* The ids of the nodes whose bounding box overlaps the rectangle box under
\* the strict test of the claim.
StrictlyOverlapping(box) ==
    {nodes[i].id : i \in {j \in DOMAIN nodes :
        /\ Lt(nodes[j].x, Add(box.x, box.width))
        /\ Gt(Add(nodes[j].x, nodes[j].width), box.x)
        /\ Lt(nodes[j].y, Add(box.y, box.height))
        /\ Gt(Add(nodes[j].y, nodes[j].height), box.y)}}

\* C6: the release of a box selection picks exactly the nodes whose bounding
\* box strictly overlaps the selection rectangle; without shift the
\* selection becomes exactly that set, with shift on the release it becomes
\* the selection so far united with that set, with shift held from the press
\* on that is the selection before the press united with that set; no id is
\* listed twice.
C6_BoxReleaseSelectsOverlap ==
    [][(isBoxSelecting /\ selectionBox # <<>>
        /\ lastEvent'.type \in {"up", "leave"})
       => LET picked == StrictlyOverlapping(selectionBox[1])
              shift  == lastEvent'.flag
          IN  /\ lastEvent'.did = "box"
              /\ ~shift => Range(selectedNodeIds') = picked
              /\ shift => Range(selectedNodeIds')
                              = Range(selectedNodeIds) \cup picked
              /\ (shift /\ gesture.kind = "box" /\ gesture.shift
                  /\ gesture.clean)
                 => Range(selectedNodeIds') = Range(gesture.sel0) \cup picked
              /\ Cardinality(Range(selectedNodeIds')) = Len(selectedNodeIds')
      ]_vars

\* A shift-held box selection was released and united a prior selection
\* with a picked node that was not in it.
C6_Witness ==
    /\ lastEvent = Ev("up", TRUE, "box")
    /\ selectedNodeIds = <<2, 1>>

\* C7: with the line or arrow tool, a press at world point P, moves ending
\* at world point Q and a release, with no other event in between, leave the
\* store as it was before the press plus exactly one node of the tool's
\* kind, with x,y = P and points = [(0,0), Q - P].
C7_LineGestureAddsOneNode ==
    [][(gesture.kind = "create" /\ gesture.tool \in {"line", "arrow"}
        /\ gesture.clean /\ lastEvent'.type \in {"up", "leave"})
       => LET k == Len(gesture.nodes0)
          IN  /\ Len(nodes') = k + 1
              /\ SubSeq(nodes', 1, k) = gesture.nodes0
              /\ nodes'[k + 1].type = gesture.tool
              /\ nodes'[k + 1].x = gesture.P.x
              /\ nodes'[k + 1].y = gesture.P.y
              /\ nodes'[k + 1].points =
                     <<Origin, Pt(Sub(gesture.Q.x, gesture.P.x),
                                  Sub(gesture.Q.y, gesture.P.y))>>
      ]_vars

\* A line gesture with a move away from the press point was released: the
\* store holds an engine-made line whose end point is not its start point.
C7_Witness ==
    /\ Released /\ lastEvent.did = "draw"
    /\ \E i \in DOMAIN nodes :
           /\ nodes[i].type \in {"line", "arrow"}
           /\ EngineCreated(nodes[i])
           /\ Len(nodes[i].points) = 2
           /\ nodes[i].points[2] # Origin

\* C8: in every reachable state every line or arrow node the engine created
\* has exactly two points, the first of them (0,0).
C8_LinesHaveTwoPoints ==
    \A i \in DOMAIN nodes :
        (nodes[i].type \in {"line", "arrow"} /\ EngineCreated(nodes[i]))
        => /\ Len(nodes[i].points) = 2
           /\ nodes[i].points[1] = Origin

\* An engine-made line was drawn out, given content and then dragged
\* together with another node.
C8_Witness ==
    /\ lastEvent.type = "move" /\ lastEvent.did = "drag"
    /\ Len(selectedNodeIds) = 2
    /\ \E i \in DOMAIN nodes :
           /\ nodes[i].type \in {"line", "arrow"}
           /\ EngineCreated(nodes[i])
           /\ Includes(selectedNodeIds, nodes[i].id)
           /\ nodes[i].content = "x"
           /\ nodes[i].points[2] # Origin

C10_DeleteInTextFieldIsIgnored ==
    [][(lastEvent'.type \in {"Delete", "Backspace"} /\ lastEvent'.flag)
       => /\ nodes' = nodes
          /\ selectedNodeIds' = selectedNodeIds
      ]_vars

\* Delete went to a text field while two nodes were selected and being
\* dragged.
C10_Witness ==
    /\ lastEvent.type = "Delete" /\ lastEvent.flag
    /\ Len(selectedNodeIds) = 2
    /\ isDragging

\* C11: a Delete or Backspace key press outside a text field with a
\* non-empty selection leaves, in that one step, the store holding exactly
\* the previously unselected nodes in their previous order and the selection
\* empty.
C11_DeleteRemovesExactlyTheSelection ==
    [][(/\ lastEvent'.type \in {"Delete", "Backspace"} /\ ~lastEvent'.flag
        /\ Len(selectedNodeIds) > 0)
       => LET kept == {i \in DOMAIN nodes :
                          nodes[i].id \notin Range(selectedNodeIds)}
          IN  /\ Len(nodes') = Cardinality(kept)
              /\ \A i \in kept :
                     nodes'[Cardinality({j \in kept : j <= i})] = nodes[i]
              /\ selectedNodeIds' = <<>>
      ]_vars

\* Delete removed one of two nodes while the pointer was held in a drag.
C11_Witness ==
    /\ lastEvent = Ev("Delete", FALSE, "delete")
    /\ Len(nodes) = 1
    /\ isDragging
    /\ selectedNodeIds = <<>>

\* The step emits a pen path: the press that closes it or the Enter key.
EmitsPath == lastEvent'.did \in {"penclose", "finish"}

\* v = Math.max(1, the largest of the offsets ds)
IsFlooredExtent(v, ds) ==
    /\ Ge(v, Q(1))
    /\ \A i \in DOMAIN ds : Le(ds[i], v)
    /\ v = Q(1) \/ \E i \in DOMAIN ds : ds[i] = v

\* C12: finalizing a pen path adds one path node at the min corner of the
\* bounding box of the raw anchors, with the box's width and height, each
\* floored at 1, and stores every anchor as ((x - minX) / width,
\* (y - minY) / height), a pair of numbers in [0,1].
C12_PathIsNormalizedToItsBox ==
    [][EmitsPath
       => LET raw == penPoints
              n   == nodes'[Len(nodes')]
              I   == DOMAIN raw
          IN  /\ Len(nodes') = Len(nodes) + 1
              /\ SubSeq(nodes', 1, Len(nodes)) = nodes
              /\ n.type = "path"
              /\ \A i \in I : Le(n.x, raw[i].x) /\ Le(n.y, raw[i].y)
              /\ \E i \in I : n.x = raw[i].x
              /\ \E i \in I : n.y = raw[i].y
              /\ IsFlooredExtent(n.width, [i \in I |-> Sub(raw[i].x, n.x)])
              /\ IsFlooredExtent(n.height, [i \in I |-> Sub(raw[i].y, n.y)])
              /\ DOMAIN n.points = I
              /\ \A i \in I :
                     /\ n.points[i].x = Div(Sub(raw[i].x, n.x), n.width)
                     /\ n.points[i].y = Div(Sub(raw[i].y, n.y), n.height)
                     /\ Le(Q(0), n.points[i].x) /\ Le(n.points[i].x, Q(1))
                     /\ Le(Q(0), n.points[i].y) /\ Le(n.points[i].y, Q(1))
      ]_vars

\* A path of three anchors was closed by a press on its first anchor; its
\* box is wider and higher than the floor.
C12_Witness ==
    /\ lastEvent.type = "down" /\ lastEvent.did = "penclose"
    /\ LET n == nodes[Len(nodes)]
       IN  /\ n.type = "path"
           /\ Len(n.points) = 3
           /\ Gt(n.width, Q(1)) /\ Gt(n.height, Q(1))

HasHandles(pt) ==
    ~IsUndef(pt.lcx) /\ ~IsUndef(pt.lcy) /\ ~IsUndef(pt.rcx) /\ ~IsUndef(pt.rcy)

\* C13: when a pen path is finalized, every anchor that carries control
\* handles in the buffer carries them in the emitted node: lcx and rcx are
\* the raw offsets divided by the box width, lcy and rcy the raw offsets
\* divided by the box height, also where a raw offset is 0.
C13_HandlesAreScaledWithTheBox ==
    [][EmitsPath
       => LET raw == penPoints
              n   == nodes'[Len(nodes')]
          IN  \A i \in DOMAIN raw :
                  HasHandles(raw[i])
                  => /\ n.points[i].lcx = Div(raw[i].lcx, n.width)
                     /\ n.points[i].rcx = Div(raw[i].rcx, n.width)
                     /\ n.points[i].lcy = Div(raw[i].lcy, n.height)
                     /\ n.points[i].rcy = Div(raw[i].rcy, n.height)
      ]_vars

\* C14: an Escape key press while the point buffer is non-empty empties the
\* buffer and adds no node, in whatever state it arrives; and no other step
\* takes the buffer from non-empty to empty without adding a path node.
C14_EscapeAloneAbandonsAPath ==
    [][/\ (lastEvent'.type = "Escape" /\ Len(penPoints) > 0)
           => (penPoints' = <<>> /\ nodes' = nodes)
       /\ (Len(penPoints) > 0 /\ penPoints' = <<>>
             /\ lastEvent'.type # "Escape")
           => /\ Len(nodes') = Len(nodes) + 1
              /\ nodes'[Len(nodes')].type = "path"
      ]_vars

\* C15: a request to finalize a pen path whose buffer holds fewer than two
\* points (Enter with the pen tool active) leaves the store as it was and
\* empties the buffer.
C15_ShortPathIsDiscarded ==
    [][(/\ lastEvent'.type = "Enter" /\ ~lastEvent'.flag
        /\ activeTool = "pen" /\ Len(penPoints) < 2)
       => (nodes' = nodes /\ penPoints' = <<>>)
      ]_vars

\* C16: the nodes of the store have pairwise distinct ids, whatever
\* generateId returned when each was created.
C16_IdsArePairwiseDistinct ==
    \A i, j \in DOMAIN nodes : i # j => nodes[i].id # nodes[j].id

IdsOf(store) == [i \in DOMAIN store |-> store[i].id]

\* C18: in every step the nodes that stay in the store keep their relative
\* order, and every node the step creates lies above all of them.
C18_OrderIsStableAndNewNodesGoOnTop ==
    [][LET old  == IdsOf(nodes)
           new  == IdsOf(nodes')
           kept == SelectSeq(old, LAMBDA id : Includes(new, id))
       IN  /\ Len(kept) <= Len(new)
           /\ SubSeq(new, 1, Len(kept)) = kept
      ]_vars

\* A line was drawn, then the bottom node was deleted: the text node and the
\* line remain, the line on top.
C18_Witness ==
    /\ lastEvent.did = "delete"
    /\ Len(nodes) = 2
    /\ nodes[1].id = 2
    /\ EngineCreated(nodes[2])

\* C19: in every reachable state the scale of the view lies between
\* MIN_SCALE and MAX_SCALE.
C19_ScaleStaysInRange ==
    Le(MIN_SCALE, view.scale) /\ Le(view.scale, MAX_SCALE)

\* A wheel zoom at the cursor arrived at the upper limit, which no product
\* of the zoom factors reaches from the initial scale without the clamp.
C19_Witness ==
    /\ lastEvent = Ev("wheel", TRUE, "zoom")
    /\ view.scale = MAX_SCALE

\* The unit roundoff of the floating-point format: the relative error of one
\* rounded operation is at most UnitRoundoff.
UnitRoundoff == Rat(1, Pow2(MantissaBits))

\* |r - v| <= 4 * UnitRoundoff * magnitude
WithinTolerance(r, v, magnitude) ==
    Le(Abs(Sub(r, v)), Mul(Mul(Q(4), UnitRoundoff), magnitude))

\* The round trip screen -> world -> screen of point p, and the round trip
\* world -> screen -> world.
ScreenRoundTrip(p) ==
    LET w == screenToWorldFl(Q(p[1]), Q(p[2]))
    IN  worldToScreenFl(w.x, w.y)

WorldRoundTrip(p) ==
    LET sc == worldToScreenFl(Q(p[1]), Q(p[2]))
    IN  screenToWorldFl(sc.x, sc.y)

\* C20, as stated: for a scale within the limits the round trips screen ->
\* world -> screen and world -> screen -> world return exactly the point
\* they started from.
C20_RoundTripIsExact ==
    C19_ScaleStaysInRange
    => \A p \in RoundTripPoints :
           /\ ScreenRoundTrip(p) = Pt(Q(p[1]), Q(p[2]))
           /\ WorldRoundTrip(p) = Pt(Q(p[1]), Q(p[2]))

\* C20, amended: for a scale within the limits both round trips return the
\* point they started from within floating-point tolerance: a screen
\* coordinate s comes back within 4u(|s - offset| + |s|), a world coordinate
\* p within 4u(|p| + |p + offset / scale|), u the unit roundoff.
C20_RoundTripWithinTolerance ==
    C19_ScaleStaysInRange
    => LET k  == Fl(view.scale)
           ox == Fl(view.offsetX)
           oy == Fl(view.offsetY)
       IN  \A p \in RoundTripPoints :
               LET x == Q(p[1])
                   y == Q(p[2])
                   s == ScreenRoundTrip(p)
                   w == WorldRoundTrip(p)
               IN  /\ WithinTolerance(s.x, x, Add(Abs(Sub(x, ox)), Abs(x)))
                   /\ WithinTolerance(s.y, y, Add(Abs(Sub(y, oy)), Abs(y)))
                   /\ WithinTolerance(w.x, x,
                          Add(Abs(x), Abs(Add(x, Div(ox, k)))))
                   /\ WithinTolerance(w.y, y,
                          Add(Abs(y), Abs(Add(y, Div(oy, k)))))

\* After a zoom a round trip returns a point other than the one it started
\* from.
C20_Witness ==
    /\ lastEvent.did = "zoom"
    /\ C19_ScaleStaysInRange
    /\ \E p \in RoundTripPoints :
           \/ ScreenRoundTrip(p) # Pt(Q(p[1]), Q(p[2]))
           \/ WorldRoundTrip(p) # Pt(Q(p[1]), Q(p[2]))

\* screenToWorld(clientX, clientY) on the view after a modifier-wheel zoom at
\* (clientX, clientY) with e.deltaY = deltaY, as the doubles compute it.
AnchorAfterZoom(clientX, clientY, deltaY) ==
    LET v == ZoomAtCursorFl(clientX, clientY, deltaY)
    IN  Pt(Fl(Div(Fl(Sub(clientX, v.offsetX)), v.scale)),
           Fl(Div(Fl(Sub(clientY, v.offsetY)), v.scale)))

\* |r - w| <= 5 * UnitRoundoff * (|w| + |c| / newScale)
AnchorWithinTolerance(r, w, c, newScale) ==
    Le(Abs(Sub(r, w)),
       Mul(Mul(Q(5), UnitRoundoff), Add(Abs(w), Div(Abs(c), newScale))))

\* C21, as stated: a modifier-wheel zoom at a cursor position leaves
\* screenToWorld of that position exactly as it was, also when the new scale
\* is clamped; a wheel event without the modifier never changes the scale.
C21_ZoomKeepsAnchorExactly ==
    [][/\ (lastEvent'.type = "wheel" /\ lastEvent'.flag)
           => \A p \in Pts, deltaY \in ZoomDeltas :
                  AnchorAfterZoom(Q(p[1]), Q(p[2]), Q(deltaY))
                      = screenToWorldFl(Q(p[1]), Q(p[2]))
       /\ (lastEvent'.type = "wheel" /\ ~lastEvent'.flag)
           => view'.scale = view.scale
      ]_vars

\* C21, amended: a modifier-wheel zoom at a cursor position c leaves
\* screenToWorld of that position as it was within floating-point
\* tolerance, 5u(|w| + |c| / newScale) for the world coordinate w, also when
\* the new scale is clamped; a wheel event without the modifier never
\* changes the scale.
C21_ZoomKeepsAnchorWithinTolerance ==
    [][/\ (lastEvent'.type = "wheel" /\ lastEvent'.flag)
           => \A p \in Pts, deltaY \in ZoomDeltas :
                  LET w == screenToWorldFl(Q(p[1]), Q(p[2]))
                      r == AnchorAfterZoom(Q(p[1]), Q(p[2]), Q(deltaY))
                      k == WheelScaleFl(Fl(view.scale), Q(deltaY))
                  IN  /\ AnchorWithinTolerance(r.x, w.x, Q(p[1]), k)
                      /\ AnchorWithinTolerance(r.y, w.y, Q(p[2]), k)
       /\ (lastEvent'.type = "wheel" /\ ~lastEvent'.flag)
           => view'.scale = view.scale
      ]_vars

\* After a modifier-wheel zoom the view is one on which a further zoom at a
\* cursor point is clamped at a limit and moves the world point under the
\* cursor.
C21_Witness ==
    /\ lastEvent = Ev("wheel", TRUE, "zoom")
    /\ \E p \in Pts, deltaY \in ZoomDeltas :
           /\ WheelScaleFl(Fl(view.scale), Q(deltaY))
                  \in {Fl(MIN_SCALE), Fl(MAX_SCALE)}
           /\ AnchorAfterZoom(Q(p[1]), Q(p[2]), Q(deltaY))
                  # screenToWorldFl(Q(p[1]), Q(p[2]))

\* C22: a press while the hand tool is active, wherever it lands, enters
\* panning and nothing else: the store, the pen buffer and the selection
\* stay as they were and no drag, resize, drawing or box selection starts.
C22_HandPressOnlyPans ==
    [][(~pressed /\ pressed' /\ activeTool = "hand")
       => /\ isPanning'
          /\ nodes' = nodes
          /\ penPoints' = penPoints
          /\ selectedNodeIds' = selectedNodeIds
          /\ isDragging' = isDragging
          /\ resizeState' = resizeState
          /\ isDrawing' = isDrawing
          /\ isBoxSelecting' = isBoxSelecting
      ]_vars

\* C23: the store changes only in steps that are pointer, keyboard or click
\* callbacks, never in the completion callback of an operation that an
\* earlier event started and that other events have overtaken.
C23_StoreIsWrittenInsideItsEvent ==
    [][nodes' # nodes => lastEvent'.type # "load"]_vars

\* C24: after every pointer-move that resized a node, a handle containing w
\* has kept the right edge where it was at the start of the resize
\* (x + width = startX + startWidth) and a handle containing n has kept the
\* bottom edge (y + height = startY + startHeight), for every node kind and
\* pointer position, moves that reach the floor of 10 included.
C24_ResizeKeepsOppositeEdge ==
    (lastEvent.type = "move" /\ lastEvent.did = "resize") =>
        \A i \in DOMAIN nodes :
            LET n  == nodes[i]
                rs == resizeState[1]
                sd == rs.startDims
            IN  n.id = rs.nodeId =>
                /\ HasW(rs.handle) =>
                       Add(n.x, n.width) = Add(sd.x, sd.width)
                /\ HasN(rs.handle) =>
                       Add(n.y, n.height) = Add(sd.y, sd.height)

\* The width a resize asks for before the floor of 10: startWidth + dx for a
\* handle containing e, startWidth - dx for one containing w.
AskedWidth(rs, worldPos) ==
    LET dx == Sub(worldPos.x, rs.startPoint.x)
    IN  IF HasW(rs.handle) THEN Sub(rs.startDims.width, dx)
        ELSE IF HasE(rs.handle) THEN Add(rs.startDims.width, dx)
        ELSE rs.startDims.width

\* What the claim C25 says of the text node n resized under rs by a move of
\* the pointer to worldPos.
TextResizedAsClaimed(n, rs, worldPos) ==
    LET sd       == rs.startDims
        newWidth == AskedWidth(rs, worldPos)
        ratio    == Div(newWidth, sd.width)
    IN  /\ n.width = Max(Q(10), newWidth)
        /\ IF IsCorner(rs.handle)
           THEN /\ n.fontSize = Round(Max(Q(8), Mul(sd.fontSize, ratio)))
                /\ n.height = Max(Q(10), Mul(sd.height, ratio))
           ELSE /\ n.fontSize = sd.fontSize
                /\ n.height = sd.height
                /\ n.y = sd.y
                /\ n.x = IF HasW(rs.handle)
                         THEN Add(sd.x, Sub(worldPos.x, rs.startPoint.x))
                         ELSE sd.x

\* C25: after every pointer-move that resized a text node, with a corner
\* handle the font size is round(max(8, startFontSize * newWidth /
\* startWidth)) and the height is max(10, startHeight * newWidth /
\* startWidth); with a side handle the font size and the height keep their
\* start values and only the width (and x, for the w handle) changes.
C25_TextResizeScalesOrReflows ==
    (lastEvent.type = "move" /\ lastEvent.did = "resize") =>
        \A i \in DOMAIN nodes :
            (nodes[i].id = resizeState[1].nodeId /\ nodes[i].type = "text")
            => TextResizedAsClaimed(nodes[i], resizeState[1], gesture.Q)

\* The sequence ids without the id nodeId.
WithoutId(ids, nodeId) ==
    LET keep == {i \in DOMAIN ids : ids[i] # nodeId}
        F[k \in 0..Len(ids)] ==
            IF k = 0 THEN <<>>
            ELSE IF k \in keep THEN Append(F[k - 1], ids[k]) ELSE F[k - 1]
    IN  F[Len(ids)]

\* C26: a press on a node with the select tool: with shift on a selected
\* node removes it from the selection and starts no drag; with shift on an
\* unselected node appends it and starts a drag; without shift on a node
\* outside the selection makes the selection that node alone and starts a
\* drag; without shift on a node of the selection keeps the selection and
\* starts a drag.
C26_NodePressSelectsAndDrags ==
    [][\A id \in NodeIds, shiftKey \in BOOLEAN, p \in Pts :
          (activeTool = "select" /\ NodePointerDown(id, shiftKey, p[1], p[2]))
          => LET isin == Includes(selectedNodeIds, id)
             IN  /\ (shiftKey /\ isin) =>
                        /\ selectedNodeIds' = WithoutId(selectedNodeIds, id)
                        /\ ~isDragging'
                 /\ (shiftKey /\ ~isin) =>
                        /\ selectedNodeIds' = selectedNodeIds \o <<id>>
                        /\ isDragging'
                 /\ (~shiftKey /\ ~isin) =>
                        /\ selectedNodeIds' = <<id>>
                        /\ isDragging'
                 /\ (~shiftKey /\ isin) =>
                        /\ selectedNodeIds' = selectedNodeIds
                        /\ isDragging'
                 /\ isDragging' =>
                        dragStart' = screenToWorld(Q(p[1]), Q(p[2]))]_vars

\* A shift-press has taken one node out of a selection of two, without a
\* drag.
C26_Witness ==
    /\ lastEvent = Ev("nodedown", TRUE, "toggle")
    /\ Len(gesture.sel0) = 2
    /\ Len(selectedNodeIds) = 1
    /\ ~isDragging

\* Every point of the stroke n lies in the box [0, width] x [0, height].
StrokeInsideBox(n) ==
    \A k \in DOMAIN n.points :
        /\ Le(Q(0), n.points[k].x) /\ Le(n.points[k].x, n.width)
        /\ Le(Q(0), n.points[k].y) /\ Le(n.points[k].y, n.height)

\* C27: a press with the pencil tool creates a draw node with the one point
\* (0, 0) and size 0 x 0; every move of the stroke appends exactly one
\* point, the pointer's world position minus the node's origin; width and
\* height never decrease; and after every move every point of the stroke
\* lies in [0, width] x [0, height], whatever the direction of the stroke.
C27_StrokeStaysInsideItsBox ==
    [][/\ (lastEvent'.type = "down" /\ created' > created
           /\ activeTool = "pencil")
          => LET n == nodes'[Len(nodes')]
             IN  /\ n.type = "draw"
                 /\ n.points = <<Pt(Q(0), Q(0))>>
                 /\ n.width = Q(0) /\ n.height = Q(0)
       /\ (lastEvent'.type = "move" /\ lastEvent'.did = "draw")
          => \A i \in DOMAIN nodes :
                 (nodes[i].id = selectedNodeIds[1] /\ nodes[i].type = "draw")
                 => LET n == nodes[i]
                        m == nodes'[i]
                    IN  /\ m.points =
                               Append(n.points,
                                      Pt(Sub(gesture'.Q.x, n.x),
                                         Sub(gesture'.Q.y, n.y)))
                        /\ Le(n.width, m.width) /\ Le(n.height, m.height)
                        /\ StrokeInsideBox(m)]_vars

\* C28: every move of the drawing of a generic shape pressed at S gives the
\* shape, for the pointer at C, x = min(S.x, C.x), y = min(S.y, C.y),
\* width = |C.x - S.x| and height = |C.y - S.y|: a function of S and C
\* alone, whatever the moves before; and it changes no other node.
C28_ShapeIsTheBoxOfPressAndPointer ==
    [][(lastEvent'.type = "move" /\ lastEvent'.did = "draw")
       => /\ Len(nodes') = Len(nodes)
          /\ \A i \in DOMAIN nodes :
                 LET S == gesture.P
                     C == gesture'.Q
                 IN  IF nodes[i].id # selectedNodeIds[1]
                     THEN nodes'[i] = nodes[i]
                     ELSE nodes[i].type \in ShapeTools
                          => nodes'[i] =
                                 [nodes[i] EXCEPT
                                     !.x = Min(S.x, C.x),
                                     !.y = Min(S.y, C.y),
                                     !.width = Abs(Sub(C.x, S.x)),
                                     !.height = Abs(Sub(C.y, S.y))]]_vars

\* The second shape of a session is being drawn up and to the left of its
\* press point: its origin is the pointer, not the press point.
C28_Witness ==
    /\ lastEvent = Ev("move", FALSE, "draw")
    /\ gesture.kind = "create"
    /\ \E i \in DOMAIN nodes :
           /\ nodes[i].id = selectedNodeIds[1]
           /\ nodes[i].type \in ShapeTools
           /\ Lt(nodes[i].x, gesture.P.x)
           /\ Lt(nodes[i].y, gesture.P.y)
           /\ Gt(nodes[i].width, Q(0))
           /\ Len(nodes) > Len(INITIAL_NODES) + 1

\* C29: a release that ends a creation gesture in which the pointer was
\* dragged makes select the active tool unless the tool is the pencil, and
\* a press with the select tool creates no node; with the pencil the release
\* leaves the pencil active, and every further press on the canvas adds one
\* new draw node of its own, which the moves that follow extend without
\* touching the strokes drawn before.
C29_CreationIsOneShotExceptPencil ==
    [][/\ (/\ lastEvent'.type \in {"up", "leave"}
           /\ gesture.kind = "create" /\ gesture.Q # gesture.P)
          => activeTool' = IF activeTool = "pencil" THEN "pencil"
                           ELSE "select"
       /\ (lastEvent'.type = "down" /\ activeTool = "select")
          => nodes' = nodes
       /\ (/\ lastEvent'.type = "down" /\ lastEvent'.did # "pan"
           /\ activeTool = "pencil")
          => /\ Len(nodes') = Len(nodes) + 1
             /\ \A i \in DOMAIN nodes : nodes'[i] = nodes[i]
             /\ nodes'[Len(nodes')].type = "draw"
             /\ nodes'[Len(nodes')].id \notin NodeIds
             /\ selectedNodeIds' = <<nodes'[Len(nodes')].id>>
       /\ (/\ lastEvent'.type = "move" /\ lastEvent'.did = "draw"
           /\ activeTool = "pencil")
          => \A i \in DOMAIN nodes :
                 nodes[i].id # selectedNodeIds[1] => nodes'[i] = nodes[i]]_vars

\* Two strokes have been drawn one after the other, each a draw node of its
\* own with the points of its own drag, and the pencil is still active.
C29_Witness ==
    /\ ~pressed
    /\ lastEvent.type = "up" /\ lastEvent.did = "draw"
    /\ activeTool = "pencil"
    /\ \E i, j \in DOMAIN nodes :
           /\ i < j
           /\ nodes[i].type = "draw" /\ nodes[j].type = "draw"
           /\ nodes[i].id # nodes[j].id
           /\ Len(nodes[i].points) > 1 /\ Len(nodes[j].points) > 1

\* The node of the gesture in progress has been deleted: a resize whose node
\* is not in the store, or a drag or a drawing whose selection the delete
\* key has emptied.
GestureNodeDeleted ==
    /\ pressed
    /\ gesture.kind \in {"resize", "drag", "create"}
    /\ \/ resizeState # <<>> /\ resizeState[1].nodeId \notin NodeIds
       \/ isDragging /\ selectedNodeIds = <<>>
       \/ isDrawing /\ selectedNodeIds = <<>>

\* C30: once the node being resized, dragged or drawn has been deleted
\* during the gesture, every pointer-move of the gesture leaves the store
\* and the selection as they are, and the release that follows leaves no
\* mode flag set.
C30_DeletedNodeMakesTheGestureANoOp ==
    [][GestureNodeDeleted
       => /\ lastEvent'.type = "move"
             => nodes' = nodes /\ selectedNodeIds' = selectedNodeIds
          /\ lastEvent'.type \in {"up", "leave"}
             => /\ resizeState' = <<>>
                /\ ~isPanning' /\ ~isDragging' /\ ~isDrawing'
                /\ ~isBoxSelecting' /\ ~isPenDragging'
                /\ selectionBox' = <<>>]_vars

\* C31: the primary selected node is the node named by the last id of the
\* selection, the id added most recently: it is the node n after a
\* shift-press that adds n, after a plain press on a node n outside the
\* selection, after the creation of n and after a selection of n in the
\* layers panel; and it is null exactly when the selection is empty.
C31_PrimaryIsTheLastSelected ==
    [][/\ (primarySelectedNode' = <<>>) <=> (selectedNodeIds' = <<>>)
       /\ \A id \in NodeIds, shiftKey \in BOOLEAN, p \in Pts :
              (/\ activeTool = "select"
               /\ ~Includes(selectedNodeIds, id)
               /\ NodePointerDown(id, shiftKey, p[1], p[2]))
              => primarySelectedNode' = Find(id)
       /\ \A id \in NodeIds, multi \in BOOLEAN :
              (LayerSelect(id, multi)
               /\ (multi => ~Includes(selectedNodeIds, id)))
              => primarySelectedNode' = Find(id)
       /\ (lastEvent'.type = "down" /\ lastEvent'.did = "create")
              => primarySelectedNode' = <<nodes'[Len(nodes')]>>]_vars

\* A shift-press has added a second node to the selection, and the primary
\* node is that node, not the one selected first.
C31_Witness ==
    /\ lastEvent = Ev("nodedown", TRUE, "drag")
    /\ Len(selectedNodeIds) = 2
    /\ selectedNodeIds[1] # selectedNodeIds[2]
    /\ primarySelectedNode # <<>>
    /\ primarySelectedNode[1].id = selectedNodeIds[2]

\* The square of the distance between the points a and b.
DistSq(a, b) ==
    Add(Mul(Sub(a.x, b.x), Sub(a.x, b.x)), Mul(Sub(a.y, b.y), Sub(a.y, b.y)))

\* C32: with the pen tool, a press on the canvas while the buffer holds at
\* least 3 anchors, at a world distance under 10 / scale from the first
\* anchor, emits the path without adding a point (the node has as many
\* points as the buffer had) and does not start a handle drag; every other
\* pen press on the canvas appends exactly one anchor, at the pointer's world
\* position, and starts the handle drag of that anchor.
C32_PenPressClosesOrAppends ==
    [][(/\ lastEvent'.type = "down" /\ lastEvent'.did # "pan"
        /\ activeTool = "pen")
       => LET P == gesture'.P
              limit == Div(Q(10), view.scale)
          IN  IF /\ Len(penPoints) >= 3
                 /\ Lt(DistSq(P, penPoints[1]), Mul(limit, limit))
              THEN /\ Len(nodes') = Len(nodes) + 1
                   /\ \A i \in DOMAIN nodes : nodes'[i] = nodes[i]
                   /\ nodes'[Len(nodes')].type = "path"
                   /\ Len(nodes'[Len(nodes')].points) = Len(penPoints)
                   /\ penPoints' = <<>>
                   /\ isPenDragging' = isPenDragging
                   /\ activePenPointIndex' = <<>>
              ELSE /\ nodes' = nodes
                   /\ Len(penPoints') = Len(penPoints) + 1
                   /\ \A k \in DOMAIN penPoints : penPoints'[k] = penPoints[k]
                   /\ penPoints'[Len(penPoints')].x = P.x
                   /\ penPoints'[Len(penPoints')].y = P.y
                   /\ isPenDragging'
                   /\ activePenPointIndex' = <<Len(penPoints)>>]_vars

\* A press on the first of three anchors, two of them elsewhere, has emitted
\* a path of three points and left no handle drag behind.
C32_Witness ==
    /\ lastEvent = Ev("down", FALSE, "penclose")
    /\ penPoints = <<>>
    /\ ~isPenDragging
    /\ nodes[Len(nodes)].type = "path"
    /\ Len(nodes[Len(nodes)].points) = 3

\* C33: Enter outside a text field, with the pen tool active and two or more
\* anchors in the buffer, appends exactly one path node, makes it the whole
\* selection, empties the buffer and clears the active anchor index, in
\* whatever state it arrives; and the pointer-move that follows it in the
\* same press changes neither the store nor the buffer.
C33_EnterEmitsThePathForGood ==
    [][/\ (/\ lastEvent'.type = "Enter" /\ ~lastEvent'.flag
           /\ activeTool = "pen" /\ Len(penPoints) >= 2)
          => /\ Len(nodes') = Len(nodes) + 1
             /\ \A i \in DOMAIN nodes : nodes'[i] = nodes[i]
             /\ nodes'[Len(nodes')].type = "path"
             /\ selectedNodeIds' = <<nodes'[Len(nodes')].id>>
             /\ penPoints' = <<>>
             /\ activePenPointIndex' = <<>>
       /\ (/\ pressed /\ lastEvent = Ev("Enter", FALSE, "finish")
           /\ lastEvent'.type = "move")
          => nodes' = nodes /\ penPoints' = <<>>]_vars

\* The anchor a has no control handle, or two handles that mirror each
\* other.
PlainOrMirrored(a) ==
    \/ IsUndef(a.lcx) /\ IsUndef(a.lcy) /\ IsUndef(a.rcx) /\ IsUndef(a.rcy)
    \/ /\ ~IsUndef(a.rcx) /\ ~IsUndef(a.rcy)
       /\ a.lcx = Neg(a.rcx) /\ a.lcy = Neg(a.rcy)

\* C34: after every step every anchor of the pen buffer has no handles or
\* mirrored handles (lcx = -rcx, lcy = -rcy); a handle-dragging move gives
\* the anchor of the most recent press the outgoing handle pointer minus
\* anchor and changes no other anchor; and no step changes the x, y of an
\* anchor that stays in the buffer.
C34_HandlesAreMirrored ==
    [][/\ \A k \in DOMAIN penPoints' : PlainOrMirrored(penPoints'[k])
       /\ (lastEvent'.type = "move" /\ lastEvent'.did = "handle")
          => /\ Len(penPoints') = Len(penPoints)
             /\ \A k \in DOMAIN penPoints :
                    IF k = Len(penPoints)
                    THEN /\ penPoints'[k].rcx =
                               Sub(gesture'.Q.x, penPoints[k].x)
                         /\ penPoints'[k].rcy =
                               Sub(gesture'.Q.y, penPoints[k].y)
                    ELSE penPoints'[k] = penPoints[k]
       /\ penPoints' # <<>>
          => \A k \in DOMAIN penPoints :
                 /\ k \in DOMAIN penPoints'
                 /\ penPoints'[k].x = penPoints[k].x
                 /\ penPoints'[k].y = penPoints[k].y]_vars

\* The second anchor of the buffer carries handles dragged away from it,
\* the first one none.
C34_Witness ==
    /\ lastEvent = Ev("move", FALSE, "handle")
    /\ Len(penPoints) = 2
    /\ IsUndef(penPoints[1].rcx)
    /\ ~IsUndef(penPoints[2].rcx)
    /\ ~IsZero(penPoints[2].rcx)
    /\ penPoints[2].lcx = Neg(penPoints[2].rcx)

\* The offset after two panning moves, from a to b and from b to c.
TwoPanMoves(offset, a, b, c) ==
    PanOffsetFl(PanOffsetFl(offset, a, b), b, c)

\* C35: while panning, the offset after a sequence of moves is exactly the
\* offset at the press plus (current screen position - press screen
\* position): here for the press at dragStart, this move and one more move
\* to any screen point c.
C35_PanOffsetIsExactlyThePointerDelta ==
    [][(lastEvent'.type = "move" /\ lastEvent'.did = "pan")
       => \A c \in Pts :
              LET a == dragStart
                  b == dragStart'
              IN  /\ TwoPanMoves(Fl(view.offsetX), a.x, b.x, Q(c[1])) =
                         Fl(Add(Fl(view.offsetX), Fl(Sub(Q(c[1]), a.x))))
                  /\ TwoPanMoves(Fl(view.offsetY), a.y, b.y, Q(c[2])) =
                         Fl(Add(Fl(view.offsetY), Fl(Sub(Q(c[2]), a.y))))]_vars

\* C35 (amended): a panning move changes neither the scale nor a node nor
\* the selection and adds the screen delta since the previous event to the
\* offset; after two moves the offset is the offset at the press plus
\* (current screen position - press screen position) within floating-point
\* tolerance: 4u times the sum of the magnitudes of the two offsets.
C35_PanOffsetWithinTolerance ==
    [][(lastEvent'.type = "move" /\ lastEvent'.did = "pan")
       => /\ view'.scale = view.scale
          /\ nodes' = nodes
          /\ selectedNodeIds' = selectedNodeIds
          /\ view'.offsetX = Add(view.offsetX, Sub(dragStart'.x, dragStart.x))
          /\ view'.offsetY = Add(view.offsetY, Sub(dragStart'.y, dragStart.y))
          /\ \A c \in Pts :
                 LET a  == dragStart
                     b  == dragStart'
                     ox == Fl(view.offsetX)
                     oy == Fl(view.offsetY)
                 IN  /\ WithinTolerance(
                            TwoPanMoves(ox, a.x, b.x, Q(c[1])),
                            Add(ox, Sub(Q(c[1]), a.x)),
                            Add(Abs(Add(ox, Sub(b.x, a.x))),
                                Abs(Add(ox, Sub(Q(c[1]), a.x)))))
                     /\ WithinTolerance(
                            TwoPanMoves(oy, a.y, b.y, Q(c[2])),
                            Add(oy, Sub(Q(c[2]), a.y)),
                            Add(Abs(Add(oy, Sub(b.y, a.y))),
                                Abs(Add(oy, Sub(Q(c[2]), a.y)))))]_vars

\* A panning move has just run under a zoomed view, and from here a move to
\* another point and back does not bring the doubles back to this offset.
C35_Witness ==
    /\ lastEvent = Ev("move", FALSE, "pan")
    /\ view.scale # Q(1)
    /\ \E c \in Pts :
           LET o == Fl(view.offsetX)
           IN  /\ Q(c[1]) # dragStart.x
               /\ TwoPanMoves(o, dragStart.x, Q(c[1]), dragStart.x) # o

\* C36: in every reachable state the selection contains no id twice and
\* every id in it is the id of a node of the store.
C36_SelectionIsDuplicateFreeAndLive ==
    /\ \A i, j \in DOMAIN selectedNodeIds :
           i # j => selectedNodeIds[i] # selectedNodeIds[j]
    /\ \A i \in DOMAIN selectedNodeIds :
           \E k \in DOMAIN nodes : nodes[k].id = selectedNodeIds[i]

\* A box selection with shift has just ended on a selection that holds a
\* finished pen path and a node of the initial store.
C36_Witness ==
    /\ lastEvent = Ev("up", TRUE, "box")
    /\ Len(selectedNodeIds) >= 2
    /\ \E i \in DOMAIN nodes :
           /\ nodes[i].type = "path"
           /\ Includes(selectedNodeIds, nodes[i].id)
    /\ \E i \in DOMAIN nodes :
           /\ ~EngineCreated(nodes[i])
           /\ Includes(selectedNodeIds, nodes[i].id)

\* The node with its x, y, width and height taken from another node.
WithGeometryOf(node, other) ==
    [node EXCEPT !.x = other.x, !.y = other.y,
                 !.width = other.width, !.height = other.height]

\* C37: a resizing move changes only the node captured at the start of the
\* resize, and of a node that is not a text node only x, y, width and
\* height: every other field, fontSize included (also when the node had
\* none), and every other node stay as they were.
C37_ResizeChangesOnlyGeometry ==
    [][(resizeState # <<>> /\ lastEvent'.type = "move"
            /\ lastEvent'.did = "resize")
       => /\ Len(nodes') = Len(nodes)
          /\ \A i \in DOMAIN nodes :
                 /\ nodes[i].id # resizeState[1].nodeId
                        => nodes'[i] = nodes[i]
                 /\ (nodes[i].id = resizeState[1].nodeId
                        /\ nodes[i].type # "text")
                        => nodes[i] = WithGeometryOf(nodes'[i], nodes[i])
      ]_vars

\* C38: a resizing move that brings the pointer back to the point of the
\* press on the handle gives the captured node the x, y, width and height it
\* had at that press, whatever the moves before it, also a shape left at
\* 0 x 0 by a click without a drag.
C38_BackAtThePressPointRestoresTheNode ==
    [][(/\ resizeState # <<>>
        /\ lastEvent'.type = "move" /\ lastEvent'.did = "resize"
        /\ gesture'.Q = resizeState[1].startPoint)
       => \A i \in DOMAIN nodes' :
              nodes'[i].id = resizeState[1].nodeId
              => LET sd == resizeState[1].startDims
                 IN  /\ nodes'[i].x = sd.x
                     /\ nodes'[i].y = sd.y
                     /\ nodes'[i].width = sd.width
                     /\ nodes'[i].height = sd.height
      ]_vars

\* The node of the store with the id of the one selected node.
TheSelectedNode(store) ==
    Filter(store, LAMBDA n : n.id = selectedNodeIds[1])[1]

\* A dragging move of exactly one selected node, from the world point of
\* the previous event to the world point of this one.
OneNodeDragMove ==
    /\ lastEvent'.type = "move" /\ lastEvent'.did = "drag"
    /\ selectedNodeIds' = selectedNodeIds
    /\ Len(selectedNodeIds) = 1
    /\ gesture.kind = "drag" /\ gesture.clean

\* C39: for one selected node dragged with the select tool the
\* single-selection variant and the multi-selection variant give the node
\* exactly the same position after every move: here for a press at the
\* previous world point, this move and one more move to any point c.
C39_DragVariantsAgreeExactly ==
    [][OneNodeDragMove
       => \A c \in Pts :
              LET n == TheSelectedNode(nodes)
                  a == dragStart
                  b == dragStart'
                  w == screenToWorldFl(Q(c[1]), Q(c[2]))
              IN  /\ DragMultiFl(DragMultiFl(Fl(n.x), Fl(a.x), Fl(b.x)),
                                 Fl(b.x), w.x)
                         = DragSingleFl(Fl(n.x), Fl(a.x), w.x)
                  /\ DragMultiFl(DragMultiFl(Fl(n.y), Fl(a.y), Fl(b.y)),
                                 Fl(b.y), w.y)
                         = DragSingleFl(Fl(n.y), Fl(a.y), w.y)]_vars

\* |a| + |b| + |c| + |d|, twice.
TwiceMagnitudes(a, b, c, d) ==
    Mul(Q(2), Add(Add(Abs(a), Abs(b)), Add(Abs(c), Abs(d))))

\* C39 (amended): the two variants give the node the same position in exact
\* arithmetic (the position at the press plus the world distance of the
\* pointer from the press point), and in floating point positions that
\* differ by at most 8u times the sum of the magnitudes of the node's start
\* coordinate and the three world coordinates of the pointer.
C39_DragVariantsAgreeWithinTolerance ==
    [][OneNodeDragMove
       => /\ LET n0 == TheSelectedNode(gesture.nodes0)
                 s  == DragNodeSingle(n0, dragStart',
                                      GrabOffset(n0, gesture.P))
                 m  == TheSelectedNode(nodes')
             IN  m.x = s.x /\ m.y = s.y
          /\ \A c \in Pts :
                 LET n == TheSelectedNode(nodes)
                     a == dragStart
                     b == dragStart'
                     w == screenToWorldFl(Q(c[1]), Q(c[2]))
                 IN  /\ WithinTolerance(
                            DragMultiFl(DragMultiFl(Fl(n.x), Fl(a.x), Fl(b.x)),
                                        Fl(b.x), w.x),
                            DragSingleFl(Fl(n.x), Fl(a.x), w.x),
                            TwiceMagnitudes(n.x, a.x, b.x, w.x))
                     /\ WithinTolerance(
                            DragMultiFl(DragMultiFl(Fl(n.y), Fl(a.y), Fl(b.y)),
                                        Fl(b.y), w.y),
                            DragSingleFl(Fl(n.y), Fl(a.y), w.y),
                            TwiceMagnitudes(n.y, a.y, b.y, w.y))]_vars

\* One selected node has been dragged under a zoomed view, and from here a
\* move away and a move to a further point leave the two variants apart.
C39_Witness ==
    /\ lastEvent = Ev("move", FALSE, "drag")
    /\ Len(selectedNodeIds) = 1
    /\ gesture.kind = "drag" /\ gesture.clean
    /\ view.scale # Q(1)
    /\ TheSelectedNode(nodes).x # TheSelectedNode(gesture.nodes0).x
    /\ \E b, c \in Pts :
           LET n  == TheSelectedNode(nodes)
               a  == Fl(dragStart.x)
               wb == screenToWorldFl(Q(b[1]), Q(b[2]))
               wc == screenToWorldFl(Q(c[1]), Q(c[2]))
           IN  DragMultiFl(DragMultiFl(Fl(n.x), a, wb.x), wb.x, wc.x)
                   # DragSingleFl(Fl(n.x), a, wc.x)

\* C40: when the suggestions arrive, one node per suggestion is appended
\* after all nodes of the store as it is then, whatever was dragged,
\* resized, created or deleted during the wait (the source node included),
\* and no node of the store is changed or removed; a failed generation
\* leaves the store as it is; isGenerating is false after either.
C40_SuggestionsOnlyAppend ==
    [][lastEvent'.type = "generated"
       => /\ ~isGenerating'
          /\ lastEvent'.did = "fail" => nodes' = nodes
          /\ lastEvent'.did = "append"
                 => /\ Len(nodes') = Len(nodes) + (created' - created)
                    /\ SubSeq(nodes', 1, Len(nodes)) = nodes
                    /\ \A k \in Len(nodes) + 1 .. Len(nodes') :
                           /\ nodes'[k].type = "sticky"
                           /\ \A j \in DOMAIN nodes : nodes[j].id # nodes'[k].id
      ]_vars

\* Two suggestions have arrived for a node that was deleted during the
\* wait: they are in the store, the node is not.
C40_Witness ==
    /\ lastEvent = Ev("generated", TRUE, "append")
    /\ ~isGenerating
    /\ Len(nodes) = Len(INITIAL_NODES) + 1
    /\ nodes[Len(nodes)].type = "sticky"
    /\ nodes[Len(nodes) - 1].type = "sticky"

====
